---- MODULE Spec2Model ----
(***************************************************************************)
(* Travel-bot offer lifecycle: state store (gcs_state.py), offer router    *)
(* and scheduler (app.py), ingestion filter (feed_parser.py) and digest    *)
(* publisher (publishing.py).                                              *)
(*                                                                         *)
(* Time is counted in whole hours since 00:00 UTC of day 0.  A Python dict *)
(* is a function from its keys to its values, so a missing key is a key    *)
(* outside DOMAIN.  Python's None is the value None below.                 *)
(***************************************************************************)
EXTENDS Integers, Sequences, FiniteSets, TLC

\* ------------------------------------------------------------------ bounds
MaxRuns == 2
MaxTicks == 1
MaxBatch == 2
MaxFaults == 1
MaxQueue == 3
MaxGeneration == 12
MaxFeeds == 3
MaxLinks == 1

\* ------------------------------------------------------- input universes
Keys == {"A", "B"}
Procs == {"w1", "w2"}
StartHours == {9, 11, 19, 23}
TickHours == {1}
RouterHours == {9, 10, 13, 20}
FarHour == 1000
Scores == {0, 8, 9, 10}
None == -1
Convictions == {3, 10, None}
Continents == {"Europa", "Azja"}
Verdicts == {"GEM", "FAIR", "RISK"}
AuditFailures == {"http_status", "network_error", "unparsable"}
SendAnswers == {"markdown_ok", "plain_ok", "resent", "refused", "lost"}

\* ------------------------------------------------------ program constants
DELETE_AFTER_HOURS == 48
DEDUP_TTL_HOURS == 336
SAVE_ATTEMPTS == 10
MAX_RETRIES == 4
PER_HOST_CONCURRENCY == 2
TELEGRAM_CHANNEL_ID == [id |-> "channel", form |-> "clean"]

\* ---------------------------------------------------------- dict helpers
EmptyDict == [k \in {} |-> 0]

Get(d, k, default) == IF k \in DOMAIN d THEN d[k] ELSE default

Put(d, k, v) == [x \in (DOMAIN d) \cup {k} |-> IF x = k THEN v ELSE d[x]]

Range(s) == {s[i] : i \in DOMAIN s}

Hour(t) == t % 24

Day(t) == t \div 24

\* ------------------------------------------------------------ gcs_state
\* A variant of the default state that also carries the two digest queues.
default_state_with_queues ==
    [k \in {"sent_links", "delete_queue", "last_ai_analysis_time", "digest_candidates",
            "morning_digest_queue", "evening_digest_queue"} |->
        CASE k = "sent_links" -> EmptyDict
          [] k = "last_ai_analysis_time" -> 0
          [] OTHER -> <<>>]

default_state ==
    [k \in {"sent_links", "delete_queue", "last_ai_analysis_time", "digest_candidates"} |->
        CASE k = "sent_links" -> EmptyDict
          [] k = "delete_queue" -> <<>>
          [] k = "last_ai_analysis_time" -> 0
          [] k = "digest_candidates" -> <<>>]

\* Obsolete keys are deleted, then every default key is set if missing.
ensure_state_shapes(state) ==
    [k \in DOMAIN default_state |->
        IF k \in DOMAIN state THEN state[k] ELSE default_state[k]]

\* b is the stored blob; fail says that reading it raised.
load_state(b, fail) ==
    IF ~b.exists THEN [state |-> default_state, gen |-> None]
    ELSE IF fail THEN [state |-> default_state, gen |-> None]
    ELSE [state |-> ensure_state_shapes(b.doc), gen |-> b.generation]

\* upload_from_string(payload, if_generation_match=gen): gen None states no
\* precondition; otherwise the blob must exist with that generation.
UploadAccepted(b, gen) == gen = None \/ (b.exists /\ b.generation = gen)

Uploaded(b, payload) ==
    [exists |-> TRUE, doc |-> payload, generation |-> b.generation + 1]

\* A variant of the ledger pruning that also drops the entry made exactly
\* ttl hours ago.
prune_sent_links_strictly(state, now, ttl) ==
    IF ttl <= 0 THEN [state |-> state, pruned |-> 0]
    ELSE LET links == state["sent_links"]
             keep == {k \in DOMAIN links : links[k] # None /\ links[k] > now - ttl}
             pruned_count == Cardinality(DOMAIN links) - Cardinality(keep)
         IN  IF pruned_count > 0
             THEN [state |-> Put(state, "sent_links", [k \in keep |-> links[k]]),
                   pruned |-> pruned_count]
             ELSE [state |-> state, pruned |-> 0]

\* prune_sent_links for a configured DEDUP_TTL_HOURS of ttl.  A timestamp is an
\* hour, or None when the entry has none that can be read.
prune_sent_links_ttl(state, now, ttl) ==
    IF ttl <= 0 THEN [state |-> state, pruned |-> 0]
    ELSE LET links == state["sent_links"]
             keep == {k \in DOMAIN links : links[k] # None /\ links[k] >= now - ttl}
             pruned_count == Cardinality(DOMAIN links) - Cardinality(keep)
         IN  IF pruned_count > 0
             THEN [state |-> Put(state, "sent_links", [k \in keep |-> links[k]]),
                   pruned |-> pruned_count]
             ELSE [state |-> state, pruned |-> 0]

prune_sent_links(state, now) == prune_sent_links_ttl(state, now, DEDUP_TTL_HOURS)

remember_for_deletion(state, chat_id, message_id, source_url, now) ==
    IF DELETE_AFTER_HOURS <= 0 THEN state
    ELSE Put(state, "delete_queue",
             Append(state["delete_queue"],
                    [chat_id |-> chat_id, message_id |-> message_id,
                     delete_at |-> now + DELETE_AFTER_HOURS,
                     source_url |-> source_url]))

\* A variant of the check below that repairs without counting what it fixed.
\* A chat_id is kept as [id, form]: form "clean" is a bare numeric id, "stray"
\* is a numeric id followed by a space and more text, "junk" contains a space
\* and has no numeric prefix, "glued" is a numeric id followed by other text
\* without a space.
sanitizing_startup_check_uncounted(state) ==
    IF "delete_queue" \notin DOMAIN state THEN [state |-> state, fixed |-> 0]
    ELSE LET q == state["delete_queue"]
         IN  [state |-> Put(state, "delete_queue",
                            [i \in DOMAIN q |->
                               IF q[i].chat_id.form = "stray"
                               THEN [q[i] EXCEPT !.chat_id.form = "clean"]
                               ELSE q[i]]),
              fixed |-> 0]

sanitizing_startup_check(state) ==
    IF "delete_queue" \notin DOMAIN state THEN [state |-> state, fixed |-> 0]
    ELSE LET q == state["delete_queue"]
             bad == {i \in DOMAIN q : q[i].chat_id.form = "stray"}
             sanitized == [i \in DOMAIN q |->
                             IF i \in bad
                             THEN [q[i] EXCEPT !.chat_id.form = "clean"]
                             ELSE q[i]]
         IN  IF bad # {}
             THEN [state |-> Put(state, "delete_queue", sanitized),
                   fixed |-> Cardinality(bad)]
             ELSE [state |-> state, fixed |-> 0]

\* One delete call per due item; outcome[i] is the answer for process_now[i]:
\* "ok" (200), "gone" (a 4xx saying the message is not found or too old),
\* "refused" (any other status below 500), "retry" (exception or 5xx).
DeleteAnswers == {"ok", "gone", "refused", "retry"}

\* A variant of the split of the queue that takes every item as due.
SweepIndices_ignoring_time(q, now, due) ==
    IF due THEN [i \in DOMAIN q |-> i] ELSE <<>>

SweepIndices(q, now, due) ==
    SelectSeq([i \in DOMAIN q |-> i],
              LAMBDA i : q[i].delete_at # None /\ ((q[i].delete_at <= now) = due))

perform_delete_sweep(state, now, outcome) ==
    LET q == Get(state, "delete_queue", <<>>)
        keep_for_later == SweepIndices(q, now, FALSE)
        process_now == SweepIndices(q, now, TRUE)
        retried == SelectSeq([j \in DOMAIN process_now |-> j],
                             LAMBDA j : outcome[j] = "retry")
        final_queue == [j \in DOMAIN keep_for_later |-> q[keep_for_later[j]]]
                       \o [j \in DOMAIN retried |-> q[process_now[retried[j]]]]
        deleted == Cardinality({j \in DOMAIN process_now : outcome[j] = "ok"})
        cleaned == Cardinality({j \in DOMAIN process_now :
                                   outcome[j] \in {"gone", "refused"}})
        total_processed == deleted + cleaned
        called == [j \in DOMAIN process_now |-> q[process_now[j]]]
    IN  IF q = <<>> \/ process_now = <<>>
        THEN [state |-> state, count |-> 0, called |-> <<>>]
        ELSE IF total_processed > 0
             THEN [state |-> Put(state, "delete_queue", final_queue),
                   count |-> total_processed, called |-> called]
             ELSE [state |-> state, count |-> 0, called |-> called]

NumDue(state, now) == Len(SweepIndices(Get(state, "delete_queue", <<>>), now, TRUE))

\* ------------------------------------------------------------------ app
time_slot(hour) ==
    IF hour < 12 THEN "morning" ELSE IF hour < 18 THEN "afternoon" ELSE "evening"

target_queue_name(hour) ==
    IF 10 <= hour /\ hour < 20 THEN "evening_digest_queue" ELSE "morning_digest_queue"

\* feed_parser.process_all_sources: the posts whose guid is not a key of the
\* freshly loaded sent_links; a candidate's id is its index in this list.
new_posts(posts, loaded) ==
    SelectSeq(posts, LAMBDA k : k \notin DOMAIN Get(loaded, "sent_links", EmptyDict))

\* A variant of the candidate ordering that leaves the list as it came.
SortByArrival(s) == s

\* list.sort(key=score, reverse=True) is stable: equal scores keep their order.
RECURSIVE SortByScoreDesc(_)
SortByScoreDesc(s) ==
    IF s = <<>> THEN <<>>
    ELSE LET rest == SortByScoreDesc(SubSeq(s, 1, Len(s) - 1))
             x == s[Len(s)]
             before == SelectSeq(rest, LAMBDA y : y.score >= x.score)
             after == SelectSeq(rest, LAMBDA y : y.score < x.score)
         IN  before \o <<x>> \o after

\* int(r.get('conviction', 10)): a result without the field counts as 10.
conviction_of(r) == IF r.conviction = None THEN 10 ELSE r.conviction

\* A variant of the audit filter with the threshold one point lower.
perplexity_candidates_from_8(all_ai_results) ==
    SortByScoreDesc(SelectSeq(all_ai_results,
        LAMBDA r : r.score # 0 /\ r.score >= 8 /\ conviction_of(r) >= 7))

\* A variant of the audit filter that does not look at the conviction.
perplexity_candidates_by_score(all_ai_results) ==
    SortByScoreDesc(SelectSeq(all_ai_results, LAMBDA r : r.score # 0 /\ r.score >= 9))

perplexity_candidates(all_ai_results) ==
    SortByScoreDesc(SelectSeq(all_ai_results,
        LAMBDA r : r.score # 0 /\ r.score >= 9 /\ conviction_of(r) >= 7))

low_score_offers(all_ai_results) ==
    SelectSeq(all_ai_results, LAMBDA r : r.score # 0 /\ r.score < 9)

\* One pass of the audit-then-route loop for classifier result c.  acc carries
\* the in-memory state, the modified flag, the alerts delivered so far, whether
\* an exception has ended the function, and the outcome recorded per result.
\* sent_before is the number of messages the channel had received before the run.
Outcome(c, key, slot_free, what) ==
    [id |-> c.id, dedup_key |-> key, score |-> c.score, conviction |-> c.conviction,
     continent |-> c.continent, verdict |-> c.verdict, slot_free |-> slot_free,
     outcome |-> what]

\* The record of a candidate that took the alert branch: the slot, the time of
\* the send, the message id the send returned and the number of notifications
\* the channel received for it.
AlertOutcome(c, key, slot_free, slot, now, send, what) ==
    [id |-> c.id, dedup_key |-> key, score |-> c.score, conviction |-> c.conviction,
     continent |-> c.continent, verdict |-> c.verdict, slot_free |-> slot_free,
     outcome |-> what, slot |-> slot, sent_at |-> now,
     message_id |-> send.message_id, delivered |-> send.delivered]

\* ai_processing.audit_offer_with_perplexity, the audit function of this
\* module, by what the call to the auditor gives: a response that carries a
\* verdict is returned; an error status raises HTTPStatusError, whose handler
\* returns the verdict ERROR; any other exception (no connection, timeout, a
\* body that is not the JSON asked for) reaches the last handler, whose log
\* line reads the name title, which the function does not define, so the
\* handler itself raises NameError.
audit_offer_with_perplexity(response) ==
    CASE response \in Verdicts -> [raised |-> FALSE, verdict |-> response]
      [] response = "http_status" -> [raised |-> FALSE, verdict |-> "ERROR"]
      [] OTHER -> [raised |-> TRUE, verdict |-> "NameError"]

\* The record of a result that took the digest branch, with the queue selected.
DigestOutcome(c, key, slot_free, what, queue) ==
    [id |-> c.id, dedup_key |-> key, score |-> c.score, conviction |-> c.conviction,
     continent |-> c.continent, verdict |-> c.verdict, slot_free |-> slot_free,
     outcome |-> what, queue |-> queue]

\* A variant of the verdict test that lets every audited offer through.
is_rejected_never(verdict) == FALSE

\* "Skip any offers rejected by Perplexity".
is_rejected(verdict) == verdict \notin {"GEM", "FAIR"}

\* A variant of the alert condition that forgets the slots used today.
is_sztos_alert_any_slot(is_sztos_material, is_from_europe, slot_is_available) ==
    is_sztos_material /\ is_from_europe

\* The condition for a "Sztos Alert".
is_sztos_alert(is_sztos_material, is_from_europe, slot_is_available) ==
    is_sztos_material /\ is_from_europe /\ slot_is_available

\* publishing.send_telegram_message_async by what the messaging interface
\* answers to its one or two posts; sent_so_far is the number of messages the
\* channel has received, and a delivered message gets the next number as id.
\*   "markdown_ok"  the first post is answered ok: its message id is returned;
\*   "plain_ok"     the first post is refused (unparsable Markdown, an error
\*                  status, no connection), the plain-text post is answered ok;
\*   "resent"       the first post is delivered but its answer does not arrive
\*                  (timeout, unreadable body), and the plain-text post, which
\*                  follows any exception, is delivered and answered ok;
\*   "refused"      nothing is delivered (ok=false, or both posts fail): None;
\*   "lost"         the first post is delivered without an answer and the
\*                  plain-text post fails: None.
send_telegram_message_async(answer, sent_so_far) ==
    CASE answer \in {"markdown_ok", "plain_ok"} ->
             [message_id |-> sent_so_far + 1, delivered |-> 1]
      [] answer = "resent" -> [message_id |-> sent_so_far + 2, delivered |-> 2]
      [] answer = "lost" -> [message_id |-> None, delivered |-> 1]
      [] OTHER -> [message_id |-> None, delivered |-> 0]

\* A variant of the test of the send result that takes every send as delivered.
has_message_id_always(message_id) == TRUE

\* "if message_id:"
has_message_id(message_id) == message_id # None

RouteCandidate(acc, c, candidates, now, sent_before, run) ==
    IF acc.raised THEN acc
    ELSE IF c.id + 1 \notin DOMAIN candidates
    THEN [acc EXCEPT !.report = Append(@, Outcome(c, "", FALSE, "orphan"))]
    ELSE
    LET key == candidates[c.id + 1]
        marked == Put(acc.state, "sent_links", Put(acc.state["sent_links"], key, now))
        today == Day(now)
        reset == IF Get(marked, "last_sztos_alert_date", None) # today
                 THEN Put(Put(marked, "sztos_slots_used_today", <<>>),
                          "last_sztos_alert_date", today)
                 ELSE marked
        slot == time_slot(Hour(now))
        is_sztos_material == c.score >= 9
        is_from_europe == c.continent = "Europa"
        slot_is_available == slot \notin Range(Get(reset, "sztos_slots_used_today", <<>>))
        send == send_telegram_message_async(c.sent, sent_before + Len(acc.alerts))
        message_id == send.message_id
        received == [k \in 1..send.delivered |->
                       [dedup_key |-> key, day |-> today, slot |-> slot, run |-> run,
                        message_id |-> sent_before + Len(acc.alerts) + k]]
        queue == target_queue_name(Hour(now))
        audit_result == audit_offer_with_perplexity(c.verdict)
    IN  IF audit_result.raised
        THEN [acc EXCEPT !.raised = TRUE,
                         !.report = Append(@, Outcome(c, key, FALSE, audit_result.verdict))]
        ELSE IF is_rejected(audit_result.verdict)
        THEN [acc EXCEPT !.state = marked, !.modified = TRUE,
                         !.report = Append(@, Outcome(c, key, FALSE, "rejected"))]
        ELSE IF is_sztos_alert(is_sztos_material, is_from_europe, slot_is_available)
        THEN IF has_message_id(message_id)
             THEN [acc EXCEPT
                     !.state = Put(remember_for_deletion(reset, TELEGRAM_CHANNEL_ID,
                                                         message_id, key, now),
                                   "sztos_slots_used_today",
                                   Append(Get(reset, "sztos_slots_used_today", <<>>), slot)),
                     !.modified = TRUE,
                     !.alerts = @ \o received,
                     !.report = Append(@, AlertOutcome(c, key, slot_is_available, slot, now, send,
                                                       "alerted"))]
             ELSE [acc EXCEPT !.state = reset, !.modified = TRUE,
                              !.alerts = @ \o received,
                              !.report = Append(@, AlertOutcome(c, key, slot_is_available, slot,
                                                                   now, send, "alert_failed"))]
        ELSE IF queue \notin DOMAIN reset
        THEN [acc EXCEPT !.raised = TRUE,
                         !.report = Append(@, DigestOutcome(c, key, slot_is_available,
                                                            "KeyError", queue))]
        ELSE IF key \in {reset[queue][i].dedup_key : i \in DOMAIN reset[queue]}
        THEN [acc EXCEPT !.state = reset, !.modified = TRUE,
                         !.report = Append(@, DigestOutcome(c, key, slot_is_available,
                                                            "already_queued", queue))]
        ELSE [acc EXCEPT
                !.state = Put(reset, queue,
                              Append(reset[queue],
                                     [dedup_key |-> key, ai_score |-> c.score,
                                      verdict |-> c.verdict])),
                !.modified = TRUE,
                !.report = Append(@, DigestOutcome(c, key, slot_is_available,
                                                        "queued", queue))]

RECURSIVE RouteAll(_, _, _, _, _, _)
RouteAll(acc, cs, candidates, now, sent_before, run) ==
    IF cs = <<>> THEN acc
    ELSE RouteAll(RouteCandidate(acc, Head(cs), candidates, now, sent_before, run),
                  Tail(cs), candidates, now, sent_before, run)

\* The loop over low_score_offers: mark seen unless already a key of sent_links.
RECURSIVE MarkLowScore(_, _, _, _)
MarkLowScore(acc, offers, candidates, now) ==
    IF offers = <<>> THEN acc
    ELSE LET offer == Head(offers)
             known == offer.id + 1 \in DOMAIN candidates
             key == IF known THEN candidates[offer.id + 1] ELSE ""
             fresh == known /\ key \notin DOMAIN acc.state["sent_links"]
             next == IF fresh
                     THEN [acc EXCEPT
                             !.state = Put(@, "sent_links", Put(@["sent_links"], key, now)),
                             !.modified = TRUE]
                     ELSE acc
         IN  MarkLowScore([next EXCEPT !.report =
                              Append(@, Outcome(offer, key, FALSE,
                                                IF known THEN "low_score" ELSE "orphan"))],
                          Tail(offers), candidates, now)

\* The classifier results that are in neither list, recorded as "unrouted".
RECURSIVE Unrouted(_, _, _)
Unrouted(acc, results, candidates) ==
    IF results = <<>> THEN acc
    ELSE LET r == Head(results)
             listed == r.score # 0 /\ (r.score < 9 \/ conviction_of(r) >= 7)
             key == IF r.id + 1 \in DOMAIN candidates THEN candidates[r.id + 1] ELSE ""
         IN  Unrouted(IF listed THEN acc
                      ELSE [acc EXCEPT !.report = Append(@, Outcome(r, key, FALSE, "unrouted"))],
                      Tail(results), candidates)

\* A variant of the function below that returns at once, without pruning,
\* when there is nothing to route.
process_and_publish_offers_without_prune(state, candidates, all_ai_results, now, sent_before, run) ==
    LET start == [state |-> state, modified |-> FALSE, alerts |-> <<>>,
                  raised |-> FALSE, report |-> <<>>]
        routed == RouteAll(start, perplexity_candidates(all_ai_results),
                           candidates, now, sent_before, run)
        marked == MarkLowScore(routed, low_score_offers(all_ai_results), candidates, now)
        low == Unrouted(marked, all_ai_results, candidates)
        pruned == prune_sent_links(low.state, now)
    IN  IF candidates = <<>> \/ all_ai_results = <<>>
        THEN start
        ELSE IF routed.raised THEN routed
        ELSE [low EXCEPT !.state = pruned.state,
                         !.modified = low.modified \/ pruned.pruned > 0]

\* process_and_publish_offers(state, generation).  candidates is the output of
\* process_all_sources, all_ai_results the concatenated answers of analyze_batch.
\* The result's modified field is the returned flag; raised says the function
\* ended with an exception instead of returning.
process_and_publish_offers(state, candidates, all_ai_results, now, sent_before, run) ==
    LET start == [state |-> state, modified |-> FALSE, alerts |-> <<>>,
                  raised |-> FALSE, report |-> <<>>]
        pruned_only == prune_sent_links(state, now)
        routed == RouteAll(start, perplexity_candidates(all_ai_results),
                           candidates, now, sent_before, run)
        marked == MarkLowScore(routed, low_score_offers(all_ai_results), candidates, now)
        low == Unrouted(marked, all_ai_results, candidates)
        pruned == prune_sent_links(low.state, now)
    IN  IF candidates = <<>> \/ all_ai_results = <<>>
        THEN [start EXCEPT !.state = pruned_only.state,
                           !.modified = pruned_only.pruned > 0]
        ELSE IF routed.raised THEN routed
        ELSE [low EXCEPT !.state = pruned.state,
                         !.modified = low.modified \/ pruned.pruned > 0]

\* ------------------------------------------------------------ publishing
\* What publish_digest_async does before its first store write, for the state it
\* works on: "empty" (nothing to do), "clear" (nothing to render: clear and save
\* outside the try block), "failed" (create_page raised), "published".
\* A variant of the publisher that does not return early on an empty queue.
digest_plan_without_empty_check(state, queue_name, page_ok) ==
    LET digest_candidates == Get(state, queue_name, <<>>)
        rendered == {i \in DOMAIN digest_candidates :
                        digest_candidates[i].ai_score \in {9, 10}}
    IN  IF rendered = {} THEN "clear"
        ELSE IF page_ok THEN "published" ELSE "failed"

digest_plan(state, queue_name, page_ok) ==
    LET digest_candidates == Get(state, queue_name, <<>>)
        rendered == {i \in DOMAIN digest_candidates :
                        digest_candidates[i].ai_score \in {9, 10}}
    IN  IF digest_candidates = <<>> THEN "empty"
        ELSE IF rendered = {} THEN "clear"
        ELSE IF page_ok THEN "published" ELSE "failed"

\* A title is kept as its place in the alphabet once lowered (0 for an entry
\* without original_title, whose key is the empty string) and whether it is
\* written in capitals.
lower(title) == title.place

\* A variant of the order of the digest that looks at the score only.
sort_key_before_by_score(a, b) == a.ai_score > b.ai_score

\* sort_key(a) < sort_key(b) for the key (-ai_score, original_title.lower()).
sort_key_before(a, b) ==
    \/ a.ai_score > b.ai_score
    \/ a.ai_score = b.ai_score /\ lower(a.original_title) < lower(b.original_title)

\* sorted(digest_candidates, key=sort_key): entries with equal keys keep the
\* order of the queue.
RECURSIVE SortOffers(_)
SortOffers(q) ==
    IF q = <<>> THEN <<>>
    ELSE LET rest == SortOffers(SubSeq(q, 1, Len(q) - 1))
             x == q[Len(q)]
             before == SelectSeq(rest, LAMBDA y : ~sort_key_before(x, y))
             after == SelectSeq(rest, LAMBDA y : sort_key_before(x, y))
         IN  before \o <<x>> \o after

\* The two sections of the page of publish_digest_async, in the order in
\* which their entries are written.
digest_sections(state, queue_name) ==
    LET sorted_offers == SortOffers(Get(state, queue_name, <<>>))
    IN  [diamond_deals |-> SelectSeq(sorted_offers, LAMBDA o : o.ai_score = 10),
         good_deals |-> SelectSeq(sorted_offers, LAMBDA o : o.ai_score = 9)]

\* ------------------------------------------------------------- the system
VARIABLES
    clock,       \* current time, hours since day 0 00:00 UTC
    ticks,       \* number of clock advances so far
    faults,      \* number of store errors injected so far
    feed,        \* raw ingestion output: the dedup keys of the posts of all feeds
    ingest,      \* process_all_sources: the host semaphores and the request tasks
    blob,        \* the stored state document and its generation
    runs,        \* number of scheduler runs started
    alerts,      \* every alert the channel received, in order
    uploads,     \* every successful upload, in order
    crashed,     \* the runs that ended with an exception
    pc,          \* where each worker is in master_scheduler
    st,          \* master_scheduler's state
    generation,  \* master_scheduler's generation
    now_utc,     \* master_scheduler's now_utc
    modified,    \* master_scheduler's state_was_modified
    sv,          \* the running save_state_atomic call: payload, gen, attempts, caller
    report,      \* outcome per classifier result of the worker's last routing pass
    runid,       \* the number of the worker's run
    result,      \* what the worker's run handed to the /run endpoint
    save_failed  \* the final save of the worker's run raised

env == <<clock, ticks, faults, feed, ingest, blob, runs, alerts, uploads, crashed>>
locals == <<pc, st, generation, now_utc, modified, sv, report, runid, result, save_failed>>
vars == <<clock, ticks, faults, feed, ingest, blob, runs, alerts, uploads, crashed,
          pc, st, generation, now_utc, modified, sv, report, runid, result, save_failed>>

\* No request task exists and no semaphore has been made.
NoIngest == [sems |-> EmptyDict, tasks |-> <<>>]

NoSave == [payload |-> EmptyDict, gen |-> None, attempts |-> 0, ret |-> "none",
           base |-> None]

\* The keys are interchangeable, so a feed names them in order of appearance.
Feeds == {f \in UNION {[1..n -> Keys] : n \in 0..MaxBatch} : f # <<>> => f[1] = "A"}

\* A document left by an earlier deployment: one sent message whose chat id
\* carries stray text and that is due for deletion.
LegacyDoc ==
    Put(default_state, "delete_queue",
        <<[chat_id |-> [id |-> "channel", form |-> "stray"], message_id |-> 0,
           delete_at |-> 0, source_url |-> "legacy"]>>)

InitBlobs == {[exists |-> FALSE, doc |-> EmptyDict, generation |-> 0],
              [exists |-> TRUE, doc |-> default_state, generation |-> 1],
              [exists |-> TRUE, doc |-> LegacyDoc, generation |-> 1]}

\* Stored documents of a bot that has marked some of the keys as seen at
\* hour 0, which is within the time to live at every hour of a run.
SeenBlobs ==
    {[exists |-> TRUE, generation |-> 1,
      doc |-> Put(default_state, "sent_links", [k \in seen |-> 0])] :
        seen \in SUBSET Keys \ {{}}}

\* Stored documents whose delete_queue holds up to MaxQueue messages sent
\* earlier, message i due at hour 0 or at hour FarHour.
SweepQueues ==
    UNION {[1..n -> {0, FarHour}] : n \in 0..MaxQueue}

SweepBlobs ==
    {[exists |-> TRUE, generation |-> 1,
      doc |-> Put(default_state, "delete_queue",
                  [i \in DOMAIN due |->
                     [chat_id |-> TELEGRAM_CHANNEL_ID, message_id |-> i,
                      delete_at |-> due[i], source_url |-> "feed"]])] :
        due \in SweepQueues}

\* A classifier answer for one candidate together with what the auditor and the
\* messaging interface will answer for it.  score 0 stands for a result without
\* a score field, conviction None for one without a conviction field.  A field
\* that the code cannot read for the result (conviction below score 9, verdict
\* and continent without an audit, the send result without an accepted European
\* offer) takes one fixed value, and the missing conviction comes with score 9.
Answers ==
    {a \in [present : BOOLEAN, score : Scores, conviction : Convictions,
            continent : Continents, verdict : Verdicts,
            sent : {"markdown_ok", "refused"}] :
        /\ ~a.present => a.score = 0
        /\ a.score < 9 => a.conviction = 10
        /\ a.conviction = None => a.score = 9
        /\ (a.score < 9 \/ conviction_of(a) < 7) => a.verdict = "RISK"
        /\ a.verdict = "RISK" => a.continent = "Azja"
        /\ a.continent = "Azja" => a.sent = "refused"}

\* The same answers, and those in which the call to the auditor fails for an
\* offer that would otherwise be audited.
AuditAnswers ==
    Answers \cup [present : {TRUE}, score : {9, 10}, conviction : {10},
                  continent : {"Azja"}, verdict : AuditFailures, sent : {"refused"}]

\* analyze_batch over all chunks: the present answers, each carrying the id of
\* its candidate (id = index - 1).
AllAiResults(ai) ==
    LET tagged == [i \in DOMAIN ai |->
                     [id |-> i - 1, score |-> ai[i].score,
                      conviction |-> ai[i].conviction, continent |-> ai[i].continent,
                      verdict |-> ai[i].verdict, sent |-> ai[i].sent,
                      present |-> ai[i].present]]
    IN  SelectSeq(tagged, LAMBDA r : r.present)

\* A store read may raise only while the blob exists and errors are left.
ReadFaults == IF blob.exists /\ faults < MaxFaults THEN BOOLEAN ELSE {FALSE}
WriteFaults == IF faults < MaxFaults THEN BOOLEAN ELSE {FALSE}
Fault(f) == IF f THEN 1 ELSE 0

\* The state before a trigger at one of the given hours, after a number of
\* store errors and of earlier runs that left nothing behind.
InitFrom(hours, store_errors, earlier_runs, feeds, blobs) ==
    /\ clock \in hours
    /\ ticks = 0
    /\ faults = store_errors
    /\ feed \in feeds
    /\ ingest = NoIngest
    /\ blob \in blobs
    /\ runs = earlier_runs
    /\ alerts = <<>>
    /\ uploads = <<>>
    /\ crashed = {}
    /\ pc = [p \in Procs |-> "idle"]
    /\ st = [p \in Procs |-> EmptyDict]
    /\ generation = [p \in Procs |-> None]
    /\ now_utc = [p \in Procs |-> 0]
    /\ modified = [p \in Procs |-> FALSE]
    /\ sv = [p \in Procs |-> NoSave]
    /\ report = [p \in Procs |-> <<>>]
    /\ runid = [p \in Procs |-> 0]
    /\ result = [p \in Procs |-> "none"]
    /\ save_failed = [p \in Procs |-> FALSE]

\* A single call of a function of the state: the worker w1 holds the state
\* the function is called with.
InitPure(inputs, hours) ==
    /\ clock \in hours
    /\ ticks = 0
    /\ faults = 0
    /\ feed = <<>>
    /\ ingest = NoIngest
    /\ blob = [exists |-> FALSE, doc |-> EmptyDict, generation |-> 0]
    /\ runs = 0
    /\ alerts = <<>>
    /\ uploads = <<>>
    /\ crashed = {}
    /\ pc = [p \in Procs |-> IF p = "w1" THEN "call" ELSE "idle"]
    /\ st \in {[p \in Procs |-> IF p = "w1" THEN input ELSE EmptyDict] : input \in inputs}
    /\ generation = [p \in Procs |-> None]
    /\ now_utc = [p \in Procs |-> 0]
    /\ modified = [p \in Procs |-> FALSE]
    /\ sv = [p \in Procs |-> NoSave]
    /\ report = [p \in Procs |-> <<>>]
    /\ runid = [p \in Procs |-> 0]
    /\ result = [p \in Procs |-> "none"]
    /\ save_failed = [p \in Procs |-> FALSE]

\* The end of such a call: the worker holds the state the function left and
\* the record of the call.
Returns(p, state, record) ==
    /\ pc[p] = "call"
    /\ pc' = [pc EXCEPT ![p] = "returned"]
    /\ st' = [st EXCEPT ![p] = state]
    /\ report' = [report EXCEPT ![p] = <<record>>]
    /\ UNCHANGED env
    /\ UNCHANGED <<generation, now_utc, modified, sv, runid, result, save_failed>>

\* The hour of the calls of prune_sent_links, and the ledgers it is called
\* with: every key absent, without a readable timestamp, or stamped just
\* before, at or after the limits of the times to live below.
PruneHour == 400
PruneTTLs == {-1, 0, 24, DEDUP_TTL_HOURS}
PruneStamps ==
    {None, 0, PruneHour - DEDUP_TTL_HOURS - 1, PruneHour - DEDUP_TTL_HOURS,
     PruneHour - 25, PruneHour - 24, PruneHour - 1}

PruneStates ==
    {Put(Put(default_state, "sent_links", links), "delete_queue", queue) :
        links \in UNION {[seen -> PruneStamps] : seen \in SUBSET Keys},
        queue \in {<<>>, <<[chat_id |-> TELEGRAM_CHANNEL_ID, message_id |-> 1,
                            delete_at |-> FarHour, source_url |-> "feed"]>>}}

InitPrune == InitPure(PruneStates, {PruneHour})

Prune(p) ==
    \E ttl \in PruneTTLs :
        LET pruned == prune_sent_links_ttl(st[p], clock, ttl)
        IN  Returns(p, pruned.state,
                    [before |-> st[p], now |-> clock, ttl |-> ttl,
                     returned |-> pruned.pruned])

NextPrune == \E p \in Procs : Prune(p)

SpecPrune == InitPrune /\ [][NextPrune]_vars

\* ---- feed_parser: the requests of process_all_sources
\* The hosts (netloc, lower case) of the feed urls and of the links of posts.
Hosts == {"a.example", "b.example"}

\* A variant of the semaphore lookup that makes a new semaphore at every call.
sem_for_fresh(sems, host) == Put(sems, host, PER_HOST_CONCURRENCY)

\* _sem_for: the semaphore of the host, made with PER_HOST_CONCURRENCY permits
\* when the host has none yet.  A semaphore is the number of permits left.
sem_for(sems, host) ==
    IF host \in DOMAIN sems THEN sems ELSE Put(sems, host, PER_HOST_CONCURRENCY)

\* The tasks of one call of process_all_sources: one fetch_feed per source,
\* gathered, and one scrape_description per new post, awaited one after the
\* other when the gather has returned.
IngestTasks(feed_hosts, link_hosts) ==
    [i \in 1..Len(feed_hosts) |-> [kind |-> "feed", host |-> feed_hosts[i],
                                   at |-> "created"]]
    \o [i \in 1..Len(link_hosts) |-> [kind |-> "description", host |-> link_hosts[i],
                                      at |-> "created"]]

InitFetch ==
    /\ clock = 0
    /\ ticks = 0
    /\ faults = 0
    /\ feed = <<>>
    /\ ingest \in {[sems |-> EmptyDict, tasks |-> IngestTasks(feed_hosts, link_hosts)] :
                      feed_hosts \in UNION {[1..n -> Hosts] : n \in 1..MaxFeeds},
                      link_hosts \in UNION {[1..n -> Hosts] : n \in 0..MaxLinks}}
    /\ blob = [exists |-> FALSE, doc |-> EmptyDict, generation |-> 0]
    /\ runs = 0
    /\ alerts = <<>>
    /\ uploads = <<>>
    /\ crashed = {}
    /\ pc = [p \in Procs |-> "idle"]
    /\ st = [p \in Procs |-> EmptyDict]
    /\ generation = [p \in Procs |-> None]
    /\ now_utc = [p \in Procs |-> 0]
    /\ modified = [p \in Procs |-> FALSE]
    /\ sv = [p \in Procs |-> NoSave]
    /\ report = [p \in Procs |-> <<>>]
    /\ runid = [p \in Procs |-> 0]
    /\ result = [p \in Procs |-> "none"]
    /\ save_failed = [p \in Procs |-> FALSE]

\* A task may start: a fetch_feed at any time after the gather, a
\* scrape_description when every task before it has ended.
MayStart(t) ==
    \/ ingest.tasks[t].kind = "feed"
    \/ \A u \in 1..t - 1 : ingest.tasks[u].at = "done"

\* "async with _sem_for(url)": the task takes a permit and goes on to the
\* jitter sleep, or waits when the semaphore has none.
Enter(t) ==
    /\ ingest.tasks[t].at = "created"
    /\ MayStart(t)
    /\ LET host == ingest.tasks[t].host
           sems == sem_for(ingest.sems, host)
       IN  ingest' = IF sems[host] > 0
                     THEN [sems |-> Put(sems, host, sems[host] - 1),
                           tasks |-> [ingest.tasks EXCEPT ![t].at = "jitter"]]
                     ELSE [sems |-> sems,
                           tasks |-> [ingest.tasks EXCEPT ![t].at = "waiting"]]
    /\ UNCHANGED <<clock, ticks, faults, feed, blob, runs, alerts, uploads, crashed, locals>>

\* A waiting task is woken when a permit has been given back.
Wake(t) ==
    /\ ingest.tasks[t].at = "waiting"
    /\ LET host == ingest.tasks[t].host
       IN  /\ ingest.sems[host] > 0
           /\ ingest' = [sems |-> Put(ingest.sems, host, ingest.sems[host] - 1),
                         tasks |-> [ingest.tasks EXCEPT ![t].at = "jitter"]]
    /\ UNCHANGED <<clock, ticks, faults, feed, blob, runs, alerts, uploads, crashed, locals>>

\* After the jitter the request is sent.
Request(t) ==
    /\ ingest.tasks[t].at = "jitter"
    /\ ingest' = [ingest EXCEPT !.tasks[t].at = "in_flight"]
    /\ UNCHANGED <<clock, ticks, faults, feed, blob, runs, alerts, uploads, crashed, locals>>

\* The request ends, with an answer or an exception, and the block of the
\* semaphore is left: the permit is given back.
Respond(t) ==
    /\ ingest.tasks[t].at = "in_flight"
    /\ LET host == ingest.tasks[t].host
       IN  ingest' = [sems |-> Put(ingest.sems, host, ingest.sems[host] + 1),
                     tasks |-> [ingest.tasks EXCEPT ![t].at = "done"]]
    /\ UNCHANGED <<clock, ticks, faults, feed, blob, runs, alerts, uploads, crashed, locals>>

NextFetch ==
    \E t \in DOMAIN ingest.tasks : Enter(t) \/ Wake(t) \/ Request(t) \/ Respond(t)

SpecFetch == InitFetch /\ [][NextFetch]_vars

\* The states sanitizing_startup_check is called with: a delete_queue of up to
\* MaxQueue entries whose chat_id has any of the four forms.
ChatForms == {"clean", "stray", "junk", "glued"}

SanitizeStates ==
    {Put(default_state, "delete_queue",
         [i \in DOMAIN forms |->
            [chat_id |-> [id |-> "channel", form |-> forms[i]], message_id |-> i,
             delete_at |-> FarHour, source_url |-> "feed"]]) :
        forms \in UNION {[1..n -> ChatForms] : n \in 0..MaxQueue}}

InitSanitize == InitPure(SanitizeStates, {0})

Sanitize(p) ==
    LET checked == sanitizing_startup_check(st[p])
    IN  Returns(p, checked.state, [before |-> st[p], fixed |-> checked.fixed])

NextSanitize == \E p \in Procs : Sanitize(p)

SpecSanitize == InitSanitize /\ [][NextSanitize]_vars

\* The states the page of a digest is rendered from: a morning queue of up to
\* MaxQueue audited offers, each with its place in the queue as dedup_key.
Titles == [place : {1, 2}, capitals : BOOLEAN] \cup {[place |-> 0, capitals |-> FALSE]}

DigestStates ==
    {Put(default_state, "morning_digest_queue",
         [i \in DOMAIN offers |->
            [dedup_key |-> i, ai_score |-> offers[i].ai_score,
             original_title |-> offers[i].original_title]]) :
        offers \in UNION {[1..n -> [ai_score : {9, 10}, original_title : Titles]] :
                            n \in 0..MaxQueue}}

InitRender == InitPure(DigestStates, {10})

Render(p) ==
    Returns(p, st[p], digest_sections(st[p], "morning_digest_queue"))

NextRender == \E p \in Procs : Render(p)

SpecRender == InitRender /\ [][NextRender]_vars

\* What one call of generate_content_async can give: a response, an exception
\* whose text names a 429 with an exhausted resource, one whose text names a
\* 503 or an unavailable service, or any other exception.
GeminiOutcomes == {"response", "rate_limited", "unavailable", "error"}

\* A variant of the test of the exception text that takes every error for a
\* passing one.
is_retryable_always(outcome) == TRUE

\* The test of the exception text.
is_retryable(outcome) == outcome \in {"rate_limited", "unavailable"}

RECURSIVE Power2(_)
Power2(n) == IF n = 0 THEN 1 ELSE 2 * Power2(n - 1)

\* gemini_api_call_with_retry from the iteration attempt on (counted from 0),
\* for the outcomes the calls of the model will have: the number of calls made,
\* the seconds slept after each failed call, the value returned (None for no
\* response) and whether an exception left the function.
RECURSIVE gemini_api_call_with_retry(_, _, _, _)
gemini_api_call_with_retry(outcomes, max_retries, attempt, waits) ==
    IF attempt >= max_retries
    THEN [calls |-> attempt, waits |-> waits, returned |-> None, raised |-> FALSE]
    ELSE LET outcome == outcomes[attempt + 1]
         IN  IF outcome = "response"
             THEN [calls |-> attempt + 1, waits |-> waits, returned |-> attempt + 1,
                   raised |-> FALSE]
             ELSE IF is_retryable(outcome) /\ attempt < max_retries - 1
             THEN gemini_api_call_with_retry(outcomes, max_retries, attempt + 1,
                                             Append(waits, Power2(attempt + 1)))
             ELSE [calls |-> attempt + 1, waits |-> waits, returned |-> None,
                   raised |-> FALSE]

\* One call of the wrapper; the worker holds the outcomes the model's calls
\* will have, one more than the wrapper may use.
InitGemini == InitPure([1..MAX_RETRIES + 1 -> GeminiOutcomes], {0})

CallGemini(p) ==
    LET call == gemini_api_call_with_retry(st[p], MAX_RETRIES, 0, <<>>)
    IN  Returns(p, st[p], call)

NextGemini == \E p \in Procs : CallGemini(p)

SpecGemini == InitGemini /\ [][NextGemini]_vars

InitWith(hours, store_errors, earlier_runs) ==
    InitFrom(hours, store_errors, earlier_runs, Feeds, InitBlobs)

Init == InitWith(StartHours, 0, 0)

\* A period in which the store answers every request.
InitOverlapping == InitWith(StartHours, MaxFaults, 0)

\* The last run of such a period, at an hour of each time slot and each queue.
InitRouter == InitWith(RouterHours, MaxFaults, MaxRuns - 1)

\* The last run of a period over a ledger that holds some of the keys, with a
\* store that may fail.
InitIngest == InitFrom(RouterHours, 0, MaxRuns - 1, Feeds, SeenBlobs)

\* Stored ledgers whose entries were made at hour 0 or one hour before
\* PruneHour: at PruneHour the first are past the time to live.
LedgerBlobs ==
    {[exists |-> TRUE, generation |-> 1,
      doc |-> Put(default_state, "sent_links", links)] :
        links \in UNION {[seen -> {0, PruneHour - 1}] : seen \in SUBSET Keys}}

\* The last run of a period at PruneHour over such a ledger, with a store
\* that answers every request.
InitSilent == InitFrom({PruneHour}, MaxFaults, MaxRuns - 1, Feeds, LedgerBlobs)

\* The last run of such a period with nothing new in the feeds, over a stored
\* delete_queue of messages that are due or not yet due.
\* Stored documents whose delete_queue may also hold entries whose delete_at
\* cannot be read as a time (None), which the sweep steps over.
StoredSweepBlobs ==
    {[exists |-> TRUE, generation |-> 1,
      doc |-> Put(default_state, "delete_queue",
                  [i \in DOMAIN due |->
                     [chat_id |-> TELEGRAM_CHANNEL_ID, message_id |-> i,
                      delete_at |-> due[i], source_url |-> "feed"]])] :
        due \in UNION {[1..n -> {0, FarHour, None}] : n \in 0..MaxQueue}}

InitStoredSweep == InitFrom(StartHours, MaxFaults, MaxRuns - 1, {<<>>}, StoredSweepBlobs)

InitSweep == InitFrom(StartHours, MaxFaults, MaxRuns - 1, {<<>>}, SweepBlobs)

\* Recurring runs over such a stored queue, or over one of the documents of
\* the first run, while the feeds hold up to MaxBatch items, in a period in
\* which the store answers every request.
InitRecurring ==
    InitFrom(StartHours, MaxFaults, MaxRuns - 1, Feeds, SweepBlobs \cup InitBlobs)

Tick ==
    /\ ticks < MaxTicks
    /\ \E d \in TickHours : clock' = clock + d
    /\ ticks' = ticks + 1
    /\ UNCHANGED <<faults, feed, ingest, blob, runs, alerts, uploads, crashed>>
    /\ UNCHANGED locals

\* master_scheduler up to the sanitizing check: load the state, repair it, and
\* start the repair save when something was repaired.
Begin(p) ==
    /\ pc[p] \in {"idle", "done", "raised"}
    /\ runs < MaxRuns
    /\ \E fail \in ReadFaults :
        LET loaded == load_state(blob, fail)
            checked == sanitizing_startup_check(loaded.state)
        IN  /\ faults' = faults + Fault(fail)
            /\ st' = [st EXCEPT ![p] = checked.state]
            /\ generation' = [generation EXCEPT ![p] = loaded.gen]
            /\ IF checked.fixed > 0
               THEN /\ sv' = [sv EXCEPT ![p] = [payload |-> checked.state,
                                                gen |-> loaded.gen, attempts |-> 0,
                                                ret |-> "repair", base |-> loaded.gen]]
                    /\ pc' = [pc EXCEPT ![p] = "saving"]
               ELSE /\ sv' = [sv EXCEPT ![p] = NoSave]
                    /\ pc' = [pc EXCEPT ![p] = "process"]
    /\ runs' = runs + 1
    /\ runid' = [runid EXCEPT ![p] = runs + 1]
    /\ now_utc' = [now_utc EXCEPT ![p] = clock]
    /\ modified' = [modified EXCEPT ![p] = FALSE]
    /\ report' = [report EXCEPT ![p] = <<>>]
    /\ result' = [result EXCEPT ![p] = "none"]
    /\ save_failed' = [save_failed EXCEPT ![p] = FALSE]
    /\ UNCHANGED <<clock, ticks, feed, ingest, blob, alerts, uploads, crashed>>

\* The external scheduler triggers runs one after the other, and one worker
\* serves them.
StartSerial == (\A q \in Procs : pc[q] \in {"idle", "done", "raised"}) /\ Begin("w1")

\* A trigger that arrives while another run is still active.
StartOverlapping(p) == Begin(p)

\* "Successfully saved repaired state. Reloading to ensure consistency."
RepairReload(p) ==
    /\ pc[p] = "repair_reload"
    /\ \E fail \in ReadFaults :
        LET loaded == load_state(blob, fail)
        IN  /\ faults' = faults + Fault(fail)
            /\ st' = [st EXCEPT ![p] = loaded.state]
            /\ generation' = [generation EXCEPT ![p] = loaded.gen]
    /\ pc' = [pc EXCEPT ![p] = "process"]
    /\ UNCHANGED <<clock, ticks, feed, ingest, blob, runs, alerts, uploads, crashed>>
    /\ UNCHANGED <<now_utc, modified, sv, report, runid, result, save_failed>>

\* process_and_publish_offers as called by master_scheduler: ingestion reads
\* the store for itself, the classifier, the auditor and the messaging interface
\* answer, and the router works on master_scheduler's state.
ProcessWith(p, answers, traced) ==
    /\ pc[p] = "process"
    /\ \E fail \in ReadFaults :
        LET candidates == new_posts(feed, load_state(blob, fail).state)
        IN  \E ai \in [DOMAIN candidates -> answers] :
              LET r == process_and_publish_offers(st[p], candidates, AllAiResults(ai),
                                                  clock, Len(alerts), runid[p])
              IN  /\ faults' = faults + Fault(fail)
                  /\ alerts' = alerts \o r.alerts
                  /\ report' = [report EXCEPT ![p] = IF traced THEN r.report ELSE <<>>]
                  /\ IF r.raised
                     THEN /\ pc' = [pc EXCEPT ![p] = "raised"]
                          /\ crashed' = crashed \cup {runid[p]}
                          /\ result' = [result EXCEPT ![p] = "exception"]
                          /\ UNCHANGED <<st, modified>>
                     ELSE /\ pc' = [pc EXCEPT ![p] = "sweep"]
                          /\ st' = [st EXCEPT ![p] = r.state]
                          /\ modified' = [modified EXCEPT ![p] = r.modified]
                          /\ UNCHANGED <<crashed, result>>
    /\ UNCHANGED <<clock, ticks, feed, ingest, blob, runs, uploads>>
    /\ UNCHANGED <<generation, now_utc, sv, runid, save_failed>>

\* One answer for each way through the router: no result, a low score, a low
\* conviction, a rejection, and an accepted offer outside Europe, in Europe
\* with the alert sent, and in Europe with the alert not sent.
CoarseAnswers ==
    {a \in Answers : (a.present => a.score \in {8, 10}) /\ a.verdict # "FAIR"}

Process(p) == ProcessWith(p, CoarseAnswers, FALSE)

\* The same step, keeping the outcome recorded for each classifier result.
TracedProcess(p) == ProcessWith(p, Answers, TRUE)

\* One answer for each way through the router, and those of an accepted
\* European offer whose alert takes the plain-text post or loses the answer
\* to its first post.
DeliveryAnswers ==
    CoarseAnswers \cup [present : {TRUE}, score : {10}, conviction : {10},
                        continent : {"Europa"}, verdict : {"GEM"},
                        sent : {"plain_ok", "resent", "lost"}]

\* The same step with every way a send can go.
DeliveringProcess(p) == ProcessWith(p, DeliveryAnswers, TRUE)

\* The same step when calls to the auditor may fail.
AuditedProcess(p) == ProcessWith(p, AuditAnswers, TRUE)

\* perform_delete_sweep as called by master_scheduler.  A traced sweep records
\* the queue it found, the time, the calls it made with their answers, and the
\* number it returned.
SweepWith(p, traced, answers) ==
    /\ pc[p] = "sweep"
    /\ \E outcome \in [1..NumDue(st[p], clock) -> answers] :
        LET swept == perform_delete_sweep(st[p], clock, outcome)
        IN  /\ st' = [st EXCEPT ![p] = swept.state]
            /\ modified' = [modified EXCEPT ![p] = @ \/ swept.count > 0]
            /\ report' = [report EXCEPT ![p] =
                            IF traced
                            THEN <<[before |-> Get(st[p], "delete_queue", <<>>),
                                    now |-> clock, called |-> swept.called,
                                    outcome |-> outcome, count |-> swept.count]>>
                            ELSE <<>>]
    /\ pc' = [pc EXCEPT ![p] = "digest"]
    /\ UNCHANGED env
    /\ UNCHANGED <<generation, now_utc, sv, runid, result, save_failed>>

Sweep(p) == SweepWith(p, FALSE, DeleteAnswers)

TracedSweep(p) == SweepWith(p, TRUE, DeleteAnswers)

\* A sweep in which the messaging target answers every call with a success or
\* a terminal failure.
AnsweredSweep(p) == SweepWith(p, FALSE, {"ok", "gone"})

\* A variant of the end of master_scheduler that returns without saving.
FinalSave_skipped(p, state, state_was_modified) ==
    /\ sv' = [sv EXCEPT ![p] = NoSave]
    /\ pc' = [pc EXCEPT ![p] = "done"]
    /\ result' = [result EXCEPT ![p] = "complete"]

\* "FINAL STATE SAVE" and the end of master_scheduler: start save_state_atomic
\* when the state was modified, otherwise return "Scheduler run complete."
FinalSave(p, state, state_was_modified) ==
    IF state_was_modified
    THEN /\ sv' = [sv EXCEPT ![p] = [payload |-> state, gen |-> generation[p],
                                     attempts |-> 0, ret |-> "final",
                                     base |-> generation[p]]]
         /\ pc' = [pc EXCEPT ![p] = "saving"]
         /\ UNCHANGED result
    ELSE /\ sv' = [sv EXCEPT ![p] = NoSave]
         /\ pc' = [pc EXCEPT ![p] = "done"]
         /\ result' = [result EXCEPT ![p] = "complete"]

\* The digest step of master_scheduler with publish_digest_async up to its
\* first store write, and on to the final save when the publisher writes
\* nothing.  Without a generation the publisher loads a state of its own and
\* works on that copy; otherwise it works on master_scheduler's state.
Digest(p) ==
    /\ pc[p] = "digest"
    /\ LET hour == Hour(now_utc[p])
           queue_name == IF hour = 10 THEN "morning_digest_queue"
                         ELSE "evening_digest_queue"
       IN  IF hour \notin {10, 20}
           THEN /\ FinalSave(p, st[p], modified[p])
                /\ UNCHANGED <<faults, st, modified>>
           ELSE \E fail \in (IF generation[p] = None THEN ReadFaults ELSE {FALSE}),
                   page_ok \in BOOLEAN :
                  LET own == generation[p] # None
                      work == IF own THEN [state |-> st[p], gen |-> generation[p]]
                              ELSE load_state(blob, fail)
                      plan == digest_plan(work.state, queue_name, page_ok)
                      cleared == Put(work.state, queue_name, <<>>)
                  IN  /\ faults' = faults + Fault(fail)
                      /\ modified' = [modified EXCEPT ![p] = TRUE]
                      /\ IF plan \in {"empty", "failed"}
                         THEN /\ FinalSave(p, st[p], TRUE)
                              /\ UNCHANGED st
                         ELSE /\ pc' = [pc EXCEPT ![p] = "saving"]
                              /\ st' = IF own THEN [st EXCEPT ![p] = cleared] ELSE st
                              /\ sv' = [sv EXCEPT ![p] =
                                          [payload |-> cleared, gen |-> work.gen,
                                           attempts |-> 0, base |-> generation[p],
                                           ret |-> IF plan = "clear" THEN "digest_clear"
                                                   ELSE "digest"]]
                              /\ UNCHANGED result
    /\ UNCHANGED <<clock, ticks, feed, ingest, blob, runs, alerts, uploads, crashed>>
    /\ UNCHANGED <<generation, now_utc, report, runid, save_failed>>

\* A variant of the continuation below in which master_scheduler raises after
\* its final save has returned.
AfterSave_then_raising(p, ret) ==
    CASE ret = "repair" -> /\ pc' = [pc EXCEPT ![p] = "repair_reload"]
                           /\ sv' = [sv EXCEPT ![p] = NoSave]
                           /\ UNCHANGED <<result, save_failed, crashed>>
      [] ret = "final" -> /\ pc' = [pc EXCEPT ![p] = "raised"]
                          /\ sv' = [sv EXCEPT ![p] = NoSave]
                          /\ result' = [result EXCEPT ![p] = "exception"]
                          /\ crashed' = crashed \cup {runid[p]}
                          /\ UNCHANGED save_failed
      [] OTHER -> /\ FinalSave(p, st[p], TRUE)
                  /\ UNCHANGED <<save_failed, crashed>>

\* Where the caller of save_state_atomic continues when the call returns: the
\* repair save is followed by a reload, the publisher's saves by the final
\* save (state_was_modified is set after every digest hour).
AfterSave(p, ret) ==
    CASE ret = "repair" -> /\ pc' = [pc EXCEPT ![p] = "repair_reload"]
                           /\ sv' = [sv EXCEPT ![p] = NoSave]
                           /\ UNCHANGED <<result, save_failed, crashed>>
      [] ret = "final" -> /\ pc' = [pc EXCEPT ![p] = "done"]
                          /\ sv' = [sv EXCEPT ![p] = NoSave]
                          /\ result' = [result EXCEPT ![p] = "complete"]
                          /\ UNCHANGED <<save_failed, crashed>>
      [] OTHER -> /\ FinalSave(p, st[p], TRUE)
                  /\ UNCHANGED <<save_failed, crashed>>

\* Where the caller of save_state_atomic continues when the call raises: the
\* repair save returns "Critical: ...", the final save logs and goes on, the
\* publisher's save after a publication is inside its try block, its save after
\* clearing an unrenderable queue is not.
AfterSaveRaised(p, ret) ==
    CASE ret = "repair" -> /\ pc' = [pc EXCEPT ![p] = "done"]
                           /\ sv' = [sv EXCEPT ![p] = NoSave]
                           /\ result' = [result EXCEPT ![p] = "critical"]
                           /\ UNCHANGED <<save_failed, crashed>>
      [] ret = "final" -> /\ pc' = [pc EXCEPT ![p] = "done"]
                          /\ sv' = [sv EXCEPT ![p] = NoSave]
                          /\ result' = [result EXCEPT ![p] = "complete"]
                          /\ save_failed' = [save_failed EXCEPT ![p] = TRUE]
                          /\ UNCHANGED crashed
      [] ret = "digest" -> /\ FinalSave(p, st[p], TRUE)
                           /\ UNCHANGED <<save_failed, crashed>>
      [] OTHER -> /\ pc' = [pc EXCEPT ![p] = "raised"]
                  /\ sv' = [sv EXCEPT ![p] = NoSave]
                  /\ result' = [result EXCEPT ![p] = "exception"]
                  /\ crashed' = crashed \cup {runid[p]}
                  /\ UNCHANGED save_failed

\* A variant of the retry loop that never runs out of iterations.
retries_exhausted_never(attempts) == FALSE

\* "for _ in range(10)": the iteration that has just failed was the last one.
retries_exhausted(attempts) == attempts + 1 >= SAVE_ATTEMPTS

\* Another writer of the same object stores a document between two requests
\* of this one: the generation of the object moves on.
OtherWrite ==
    /\ blob.exists
    /\ blob.generation < MaxGeneration
    /\ blob' = [blob EXCEPT !.generation = @ + 1]
    /\ UNCHANGED <<clock, ticks, faults, feed, ingest, runs, alerts, uploads, crashed, locals>>

\* One iteration of the retry loop of save_state_atomic: the upload, and on a
\* 412 the reload of the generation.  The tenth failed iteration ends the loop
\* and raises RuntimeError; any other store error is raised at once.
SaveAttempt(p) ==
    /\ pc[p] = "saving"
    /\ \E err \in WriteFaults :
        IF err
        THEN /\ faults' = faults + 1
             /\ AfterSaveRaised(p, sv[p].ret)
             /\ UNCHANGED <<blob, uploads>>
        ELSE IF UploadAccepted(blob, sv[p].gen)
        THEN /\ blob' = Uploaded(blob, sv[p].payload)
             /\ uploads' = Append(uploads, [proc |-> p, run |-> runid[p],
                                            base |-> sv[p].base, ret |-> sv[p].ret,
                                            doc |-> sv[p].payload])
             /\ AfterSave(p, sv[p].ret)
             /\ UNCHANGED faults
        ELSE \E fail \in ReadFaults :
               /\ faults' = faults + Fault(fail)
               /\ UNCHANGED <<blob, uploads>>
               /\ IF retries_exhausted(sv[p].attempts)
                  THEN AfterSaveRaised(p, sv[p].ret)
                  ELSE /\ sv' = [sv EXCEPT ![p].attempts = @ + 1,
                                           ![p].gen = load_state(blob, fail).gen]
                       /\ UNCHANGED <<pc, result, save_failed, crashed>>
    /\ UNCHANGED <<clock, ticks, feed, ingest, runs, alerts>>
    /\ UNCHANGED <<st, generation, now_utc, modified, report, runid>>

\* publish_digest_async called without a state: it returns an error text when
\* it is given no queue name, before it loads the state; with a queue name it
\* loads the stored state and works on that.
publish_digest_standalone(queue_name, b, fail, page_ok) ==
    IF queue_name = None
    THEN [result |-> "no_queue_name", queue |-> None, plan |-> "none"]
    ELSE [result |-> "ran", queue |-> queue_name,
          plan |-> digest_plan(load_state(b, fail).state, queue_name, page_ok)]

\* The /publish-digest endpoint: 401 unless the request carries the shared
\* secret; otherwise publish_digest_async() is called with no argument, so
\* its queue_name is None, and what it returns is answered with 200.
handle_manual_publish(authorized, b, fail, page_ok) ==
    IF ~authorized
    THEN [code |-> 401, result |-> "unauthorized", queue |-> None, plan |-> "none"]
    ELSE LET published == publish_digest_standalone(None, b, fail, page_ok)
         IN  [code |-> 200, result |-> published.result, queue |-> published.queue,
              plan |-> published.plan]

\* A request to /publish-digest served by a worker that runs no scheduler.
ManualPublish(p) ==
    /\ pc[p] \in {"idle", "done", "raised"}
    /\ \E authorized \in BOOLEAN, page_ok \in BOOLEAN :
          LET answer == handle_manual_publish(authorized, blob, FALSE, page_ok)
          IN  /\ result' = [result EXCEPT ![p] = answer.result]
              /\ pc' = [pc EXCEPT ![p] = "done"]
              /\ IF answer.plan \in {"clear", "published"}
                 THEN blob' = Uploaded(blob, Put(load_state(blob, FALSE).state,
                                                 answer.queue, <<>>))
                 ELSE UNCHANGED blob
    /\ UNCHANGED <<clock, ticks, faults, feed, ingest, runs, alerts, uploads, crashed>>
    /\ UNCHANGED <<st, generation, now_utc, modified, sv, report, runid, save_failed>>

\* The /run endpoint answers: status ok with the returned text, or status
\* error (500) when master_scheduler raised.
HttpStatus(p) == IF result[p] = "exception" THEN "error" ELSE "ok"

Step(p) ==
    \/ RepairReload(p)
    \/ Process(p)
    \/ Sweep(p)
    \/ Digest(p)
    \/ SaveAttempt(p)

Next == Tick \/ StartSerial \/ \E p \in Procs : Step(p)

Spec == Init /\ [][Next]_vars

\* The last run of a period, whole, at an hour of each time slot and each
\* digest hour, with a store that may fail.
InitRun == InitWith(RouterHours, 0, MaxRuns - 1)

NextRun == StartSerial \/ \E p \in Procs : Step(p)

SpecRun == InitRun /\ [][NextRun]_vars

\* The same run over a stored document that exists and holds a ledger or a
\* delete_queue, with a store that may fail.
InitStored ==
    InitFrom(RouterHours, 0, MaxRuns - 1, Feeds,
             SeenBlobs \cup {b \in InitBlobs : b.exists})

SpecStored == InitStored /\ [][NextRun]_vars

\* The same run with a store that answers every request and no other writer.
InitQuiet == InitWith(RouterHours, MaxFaults, MaxRuns - 1)

SpecQuiet == InitQuiet /\ [][NextRun]_vars

\* The digest step of a run at a digest hour as it would stand had routing
\* queued offers for that hour: the run read the stored document at its
\* generation and holds a queue of up to MaxQueue offers in memory.
InitFlush ==
    /\ clock \in {10, 20}
    /\ ticks = 0
    /\ faults = MaxFaults
    /\ feed = <<>>
    /\ ingest = NoIngest
    /\ blob = [exists |-> TRUE, generation |-> 1, doc |-> default_state]
    /\ runs = MaxRuns
    /\ alerts = <<>>
    /\ uploads = <<>>
    /\ crashed = {}
    /\ pc = [p \in Procs |-> IF p = "w1" THEN "digest" ELSE "idle"]
    /\ \E n \in 1..MaxQueue : \E scores \in [1..n -> {8, 9, 10}] :
          st = [p \in Procs |->
                  IF p = "w1"
                  THEN Put(default_state,
                           IF clock = 10 THEN "morning_digest_queue"
                           ELSE "evening_digest_queue",
                           [i \in 1..n |-> [dedup_key |-> i, ai_score |-> scores[i],
                                            verdict |-> "GENUINE"]])
                  ELSE EmptyDict]
    /\ generation = [p \in Procs |-> IF p = "w1" THEN 1 ELSE None]
    /\ now_utc = [p \in Procs |-> IF p = "w1" THEN clock ELSE 0]
    /\ modified \in [Procs -> BOOLEAN]
    /\ modified["w2"] = FALSE
    /\ sv = [p \in Procs |-> NoSave]
    /\ report = [p \in Procs |-> <<>>]
    /\ runid = [p \in Procs |-> IF p = "w1" THEN 1 ELSE 0]
    /\ result = [p \in Procs |-> "none"]
    /\ save_failed = [p \in Procs |-> FALSE]

SpecFlush == InitFlush /\ [][NextRun]_vars

\* Two triggers close together: both runs fall into the same hour.
NextOverlapping == \E p \in Procs : StartOverlapping(p) \/ Step(p)

SpecOverlapping == InitOverlapping /\ [][NextOverlapping]_vars

\* One run up to the return of process_and_publish_offers, with the outcome of
\* every classifier result recorded.
NextRouter == StartSerial \/ \E p \in Procs : SaveAttempt(p) \/ RepairReload(p) \/ TracedProcess(p)

SpecRouter == InitRouter /\ [][NextRouter]_vars

\* One run over a ledger of seen keys, up to the return of
\* process_and_publish_offers.
NextIngest == StartSerial \/ \E p \in Procs : TracedProcess(p)

SpecIngest == InitIngest /\ [][NextIngest]_vars

\* One run over an aged ledger, up to the return of
\* process_and_publish_offers; the classifier may give no result at all.
SpecSilent == InitSilent /\ [][NextIngest]_vars

\* The same run with an auditor whose calls may fail.
NextAudit == StartSerial \/ \E p \in Procs : SaveAttempt(p) \/ RepairReload(p) \/ AuditedProcess(p)

SpecAudit == InitRouter /\ [][NextAudit]_vars

\* The save of the repaired state while other writers store the same object.
InitSave == InitWith(StartHours, 0, MaxRuns - 1)

NextSave ==
    StartSerial \/ OtherWrite \/ \E p \in Procs : SaveAttempt(p) \/ RepairReload(p)

SpecSave == InitSave /\ [][NextSave]_vars

\* Runs up to the start of ingestion, and requests to /publish-digest.
NextManual ==
    StartSerial \/ \E p \in Procs : SaveAttempt(p) \/ RepairReload(p) \/ ManualPublish(p)

SpecManual == InitRecurring /\ [][NextManual]_vars

\* The same run with a messaging interface whose answers may fail to arrive.
NextSend ==
    StartSerial \/ \E p \in Procs : SaveAttempt(p) \/ RepairReload(p) \/ DeliveringProcess(p)

SpecSend == InitRouter /\ [][NextSend]_vars

\* One run up to the return of perform_delete_sweep, with the calls of the
\* sweep recorded.
NextSweep == StartSerial \/ \E p \in Procs : Process(p) \/ TracedSweep(p)

SpecSweep == InitSweep /\ [][NextSweep]_vars

SpecStoredSweep == InitStoredSweep /\ [][NextSweep]_vars

\* The scheduler's next trigger after a run has answered.  Nothing of the run
\* is left in the worker, the record of the earlier run is set aside, and the
\* generation of the blob, which is only ever compared for equality, is
\* counted from 1 again.
NextTrigger ==
    /\ runs = MaxRuns
    /\ \A q \in Procs : pc[q] \in {"idle", "done", "raised"}
    /\ runs' = MaxRuns - 1
    /\ alerts' = <<>>
    /\ uploads' = <<>>
    /\ crashed' = {}
    /\ blob' = IF blob.exists THEN [blob EXCEPT !.generation = 1] ELSE blob
    /\ pc' = [q \in Procs |-> "idle"]
    /\ st' = [q \in Procs |-> EmptyDict]
    /\ generation' = [q \in Procs |-> None]
    /\ now_utc' = [q \in Procs |-> 0]
    /\ modified' = [q \in Procs |-> FALSE]
    /\ sv' = [q \in Procs |-> NoSave]
    /\ report' = [q \in Procs |-> <<>>]
    /\ runid' = [q \in Procs |-> 0]
    /\ result' = [q \in Procs |-> "none"]
    /\ save_failed' = [q \in Procs |-> FALSE]
    /\ UNCHANGED <<clock, ticks, faults, feed, ingest>>

\* Runs that keep happening: every trigger is served, every step of a run is
\* taken, and a sweep that is reached again and again is at some time answered
\* with successes and terminal failures only.
NextRecurring == StartSerial \/ NextTrigger \/ \E p \in Procs : Step(p)

FairRecurring ==
    /\ WF_vars(StartSerial)
    /\ WF_vars(NextTrigger)
    /\ \A p \in Procs :
          /\ WF_vars(RepairReload(p))
          /\ WF_vars(Process(p))
          /\ WF_vars(Digest(p))
          /\ WF_vars(SaveAttempt(p))
          /\ SF_vars(AnsweredSweep(p))

SpecRecurring == InitRecurring /\ [][NextRecurring]_vars /\ FairRecurring

\* ================================================================ claims
\* Operators over the recorded outcomes of a worker's last routing pass.
Accepted(e) == e.verdict \in {"GEM", "FAIR"}
Eligible(e) == Accepted(e) /\ e.score >= 9 /\ e.continent = "Europa"
Alerted(p) == {i \in DOMAIN report[p] : report[p][i].outcome = "alerted"}
Returned(p) == pc[p] = "sweep"

\* C1: across scheduler runs on the same UTC calendar day at most one alert is
\* sent per time slot.  Stated for the runs that neither raised nor met a
\* store error: no two alerts of such runs share day and slot.
C1_SlotQuota ==
    \A i, j \in DOMAIN alerts :
        (i < j /\ faults = 0 /\ {alerts[i].run, alerts[j].run} \cap crashed = {})
            => ~(alerts[i].day = alerts[j].day /\ alerts[i].slot = alerts[j].slot)

\* C2: when the pipeline runs twice in sequence on the same ingestion output,
\* the first run returning before the second starts, no dedup_key is alerted
\* in both runs.
C2_DedupIdempotence ==
    \A i, j \in DOMAIN alerts :
        (alerts[i].run < alerts[j].run /\ alerts[i].run \notin crashed)
            => alerts[i].dedup_key # alerts[j].dedup_key

\* C3: when process_and_publish_offers returns, the dedup_key of every
\* candidate that received a classifier result is a key of sent_links.
C3_ProcessedMarkedSeen ==
    \A p \in Procs :
        Returned(p) =>
            \A i \in DOMAIN report[p] :
                report[p][i].dedup_key \in DOMAIN st[p]["sent_links"]

\* C4: of two writers that loaded the same generation, the one that uploads
\* second stores a document that still holds every sent_links mark of the
\* document the first one stored.
C4_LoserKeepsWinnersChanges ==
    \A i, j \in DOMAIN uploads :
        (/\ i < j
         /\ uploads[i].proc # uploads[j].proc
         /\ uploads[i].base # None
         /\ uploads[i].base = uploads[j].base)
            => DOMAIN uploads[i].doc["sent_links"]
                  \subseteq DOMAIN uploads[j].doc["sent_links"]

\* C5: a run whose final state save raised is not answered with status ok.
C5_FailedSaveNotReportedOk ==
    \A p \in Procs : (pc[p] = "done" /\ save_failed[p]) => HttpStatus(p) # "ok"

\* C6: with the store answering every request, a dedup_key alerted by a run
\* that raised before its state was saved is not alerted again by a later run.
C6_NoSecondAlertAfterCrash ==
    \A i, j \in DOMAIN alerts :
        (faults = 0 /\ alerts[i].run \in crashed /\ alerts[i].run < alerts[j].run)
            => alerts[i].dedup_key # alerts[j].dedup_key

\* C8: every candidate the audit accepted (GEM or FAIR) ends the routing step
\* alerted or present in the digest queue of the current time of day.
C8_AcceptedAlertedOrQueued ==
    \A p \in Procs :
        pc[p] \in {"sweep", "raised"} =>
            \A i \in DOMAIN report[p] :
                Accepted(report[p][i]) =>
                    report[p][i].outcome \in {"alerted", "queued", "already_queued"}

C10_SingleBestAlert ==
    \A p \in Procs :
        /\ Cardinality(Alerted(p)) <= 1
        /\ \A i \in Alerted(p) : \A j \in DOMAIN report[p] :
              Eligible(report[p][j]) => report[p][j].score <= report[p][i].score

\* C10 as the code has it: within one run at most one candidate is alerted,
\* and every eligible candidate with a higher classifier score than it is one
\* whose alert was attempted and not delivered.
C10_SingleAlertBestDelivered ==
    \A p \in Procs :
        /\ Cardinality(Alerted(p)) <= 1
        /\ \A i \in Alerted(p) : \A j \in DOMAIN report[p] :
              (Eligible(report[p][j]) /\ report[p][j].score > report[p][i].score)
                  => report[p][j].outcome = "alert_failed"

\* A candidate was alerted after the alert of a higher-scored eligible
\* candidate of the same run was not delivered.
C10_LowerAlertedAfterFailedSend ==
    \E p \in Procs : \E i \in Alerted(p) : \E j \in DOMAIN report[p] :
        /\ report[p][j].outcome = "alert_failed"
        /\ report[p][j].score > report[p][i].score

\* The dedup_keys held by the digest queues of a state.
DigestQueues == {"morning_digest_queue", "evening_digest_queue"}
QueuedKeys(state) ==
    UNION {{Get(state, q, <<>>)[i].dedup_key : i \in DOMAIN Get(state, q, <<>>)} :
             q \in DigestQueues}

AuditedOutcomes ==
    {"rejected", "alerted", "alert_failed", "KeyError", "queued", "already_queued"}

\* C12: a result with score >= 9 and a conviction below 7 is not audited, not
\* alerted and not queued, and a result with score >= 9 and no conviction field
\* is audited.
C12_LowConvictionGuard ==
    \A p \in Procs : \A i \in DOMAIN report[p] :
        LET e == report[p][i]
        IN  /\ (e.score >= 9 /\ e.conviction # None /\ e.conviction < 7)
                  => e.outcome \notin AuditedOutcomes
            /\ (e.score >= 9 /\ e.conviction = None) => e.outcome \in AuditedOutcomes

\* One pass left a score 9 result of conviction 3 unaudited and audited a
\* score 9 result without a conviction.
C12_GuardedAndDefaulted ==
    \E p \in Procs : \E i, j \in DOMAIN report[p] :
        /\ report[p][i].score = 9 /\ report[p][i].conviction = 3
        /\ report[p][i].outcome = "unrouted"
        /\ report[p][j].score = 9 /\ report[p][j].conviction = None
        /\ report[p][j].outcome \in AuditedOutcomes

\* C13: a result whose score is below 9 is not audited, not alerted and not
\* appended to a digest queue.
C13_DiscardMonotonicity ==
    \A p \in Procs : \A i \in DOMAIN report[p] :
        report[p][i].score < 9 => report[p][i].outcome \in {"low_score", "unrouted"}

\* A pass returned after marking a score 8 result as seen.
C13_LowScoreDiscarded ==
    \E p \in Procs : \E i \in DOMAIN report[p] :
        /\ Returned(p)
        /\ report[p][i].score = 8
        /\ report[p][i].outcome = "low_score"
        /\ report[p][i].dedup_key \in DOMAIN st[p]["sent_links"]
        /\ st[p]["delete_queue"] = <<>>

\* C14: an audited result whose verdict is neither GEM nor FAIR is marked seen
\* and nothing else: its only outcome is the rejection, its dedup_key is in
\* sent_links when the pass returns, and every message the pass added to
\* delete_queue belongs to an alerted result.
C14_RejectExclusivity ==
    \A p \in Procs :
        /\ \A i \in DOMAIN report[p] :
              LET e == report[p][i]
              IN  (e.score >= 9 /\ conviction_of(e) >= 7 /\ ~Accepted(e))
                      => /\ e.outcome = "rejected"
                         /\ Returned(p) => e.dedup_key \in DOMAIN st[p]["sent_links"]
        /\ Returned(p) =>
              Cardinality({k \in DOMAIN st[p]["delete_queue"] :
                              st[p]["delete_queue"][k].message_id > 0})
                  = Cardinality(Alerted(p))

\* A pass returned with a rejected result as its only audited one.
C14_RejectedOnly ==
    \E p \in Procs :
        /\ Returned(p)
        /\ \E i \in DOMAIN report[p] :
              report[p][i].verdict = "RISK" /\ report[p][i].outcome = "rejected"
        /\ Alerted(p) = {}
        /\ QueuedKeys(st[p]) = {}

\* ------------------------------------------------------------ delete sweep
\* The sweep of worker p has returned and left its record.
Swept(p) == pc[p] = "digest" /\ report[p] # <<>>

\* The answers the sweep of worker p received, by kind.
AnswersOf(p, kinds) ==
    {j \in DOMAIN report[p][1].called : report[p][1].outcome[j] \in kinds}

StillQueued(p, item) == item \in Range(st[p]["delete_queue"])

\* C15: the sweep classifies every due item by the answer to its delete call:
\* a success or a terminal failure (message already gone or too old) removes
\* the item, any transient failure (network error, server error, any other
\* error response) keeps it unchanged, and the number returned is the number
\* of successes plus the number of terminal failures.
C15_SweepClassification ==
    \A p \in Procs :
        Swept(p) =>
            LET t == report[p][1]
            IN  /\ \A j \in AnswersOf(p, {"ok", "gone"}) : ~StillQueued(p, t.called[j])
                /\ \A j \in AnswersOf(p, {"retry", "refused"}) :
                       StillQueued(p, t.called[j])
                /\ t.count = Cardinality(AnswersOf(p, {"ok", "gone"}))

PersistedQueue == IF blob.exists THEN Get(blob.doc, "delete_queue", <<>>) ELSE <<>>

\* The entries of the stored queues that are due at every hour of the clock.
DueEntries ==
    {[chat_id |-> TELEGRAM_CHANNEL_ID, message_id |-> i, delete_at |-> 0,
      source_url |-> "feed"] : i \in 1..MaxQueue}

\* C17: while runs keep happening and the messaging target comes to answer
\* the delete calls with a success or a terminal failure, every due entry of
\* the persisted delete_queue is eventually removed from the persisted queue.
C17_SweepTermination ==
    \A e \in DueEntries :
        (e \in Range(PersistedQueue)) ~> (e \notin Range(PersistedQueue))

\* ------------------------------------------------------------ state store
\* C18: a state that save_state_atomic has stored is returned by load_state as
\* it was saved: after an accepted upload, a load that reads the blob yields
\* the uploaded state.
C18_StateRoundTrip ==
    (blob.exists /\ uploads # <<>>) =>
        /\ blob.doc = uploads[Len(uploads)].doc
        /\ load_state(blob, FALSE).state = blob.doc

\* C19: the state a run works on after load_state carries sent_links,
\* delete_queue and each digest queue, and no stage of the run raises for a
\* key that is missing from it.
C19_LoadedStateComplete ==
    \A p \in Procs :
        /\ pc[p] \in {"process", "sweep", "digest"} =>
               ({"sent_links", "delete_queue"} \cup DigestQueues) \subseteq DOMAIN st[p]
        /\ \A i \in DOMAIN report[p] : report[p][i].outcome # "KeyError"

\* ------------------------------------------------------------ publisher
\* The queue master_scheduler flushes at the hour of the run of worker p.
FlushedQueue(p) ==
    IF Hour(now_utc[p]) = 10 THEN "morning_digest_queue" ELSE "evening_digest_queue"

\* Worker p is about to flush a queue that is empty, both in its own state and
\* in the state the publisher would load for itself.
FlushesEmptyQueue(p) ==
    /\ pc[p] = "digest"
    /\ Hour(now_utc[p]) \in {10, 20}
    /\ Get(st[p], FlushedQueue(p), <<>>) = <<>>
    /\ Get(load_state(blob, FALSE).state, FlushedQueue(p), <<>>) = <<>>

NextFlushedQueue(hour) ==
    IF hour <= 10 \/ hour > 20 THEN "morning_digest_queue" ELSE "evening_digest_queue"

\* C23: the queue selected for an offer that goes to a digest is the queue
\* master_scheduler flushes at the next digest publication after the routing.
C23_QueuedForNextFlush ==
    \A p \in Procs : \A i \in DOMAIN report[p] :
        "queue" \in DOMAIN report[p][i] =>
            report[p][i].queue = NextFlushedQueue(Hour(now_utc[p]))

\* ------------------------------------------------------------ auditor
\* C24: a failed audit call (error status, network error or timeout,
\* unparsable response) never raises into the router: the candidate is
\* recorded as rejected and marked seen, and the pass goes on to the remaining
\* candidates, so that it raises only where a pass without the failure would.
C24_AuditFailureIsRejection ==
    \A p \in Procs :
        /\ \A i \in DOMAIN report[p] :
              report[p][i].verdict \in AuditFailures => report[p][i].outcome = "rejected"
        /\ pc[p] = "raised" =>
              \E i \in DOMAIN report[p] : report[p][i].outcome = "KeyError"

\* ------------------------------------------------------------ startup repair
\* The uploads and the alerts of the current run of worker p.
UploadsOf(p) == {i \in DOMAIN uploads : uploads[i].run = runid[p]}
AlertsOf(p) == {i \in DOMAIN alerts : alerts[i].run = runid[p]}

NothingToRepair(doc) ==
    \A i \in DOMAIN Get(doc, "delete_queue", <<>>) :
        doc["delete_queue"][i].chat_id.form # "stray"

\* C25: a run whose sanitation repaired an entry persists the repaired state
\* before ingestion and routing start: the repair save ends either with the
\* repaired state stored, followed by the reload, or with the run answering
\* "Critical: ..." with nothing processed, swept, published or stored; and a
\* run processes a state it read from the store only when the stored document
\* has nothing left to repair.
C25_RepairSavedFirst ==
    /\ [](\A p \in Procs :
            /\ (pc[p] = "process" /\ generation[p] # None) =>
                   blob.exists /\ NothingToRepair(blob.doc)
            /\ pc[p] = "repair_reload" =>
                   /\ blob.exists /\ NothingToRepair(blob.doc)
                   /\ uploads # <<>>
                   /\ uploads[Len(uploads)].run = runid[p]
                   /\ uploads[Len(uploads)].ret = "repair"
            /\ result[p] = "critical" =>
                   pc[p] = "done" /\ UploadsOf(p) = {} /\ AlertsOf(p) = {})
    /\ [][\A p \in Procs :
            (pc[p] = "saving" /\ sv[p].ret = "repair") =>
                /\ alerts' = alerts
                /\ \/ pc'[p] = "saving" /\ blob' = blob
                   \/ pc'[p] = "repair_reload" /\ blob'.doc = sv[p].payload
                   \/ pc'[p] = "done" /\ result'[p] = "critical" /\ blob' = blob]_vars

\* A run starts ingestion after its repair save has stored the repaired state.
C25_RepairedThenProcessing ==
    \E p \in Procs :
        /\ pc[p] = "process"
        /\ \E i \in UploadsOf(p) : uploads[i].ret = "repair"
        /\ blob.exists /\ blob.doc["delete_queue"] # <<>>

\* ------------------------------------------------------------ raising runs
\* C26: a run that raises stores nothing of what it changed in memory: the
\* only upload such a run can have made is the save of the repaired state
\* before ingestion, and when the run has raised the stored document is that
\* checkpoint, or the document the run found.
C26_RaisedRunStoresNothing ==
    /\ \A i \in DOMAIN uploads :
          uploads[i].run \in crashed => uploads[i].ret = "repair"
    /\ \A p \in Procs :
          pc[p] = "raised" =>
              \A i \in UploadsOf(p) :
                  /\ i = Len(uploads)
                  /\ blob.doc = uploads[i].doc
                  /\ DOMAIN blob.doc["sent_links"] \cap Range(feed) = {}

\* A run has raised after its repair checkpoint and after an alert.
C26_RaisedAfterCheckpointAndAlert ==
    \E p \in Procs :
        /\ pc[p] = "raised"
        /\ AlertsOf(p) # {}
        /\ \E i \in UploadsOf(p) : uploads[i].ret = "repair"

\* ------------------------------------------------------------ the alert send
\* The results of a run for which an alert was attempted.
Attempted(p) ==
    {i \in DOMAIN report[p] : report[p][i].outcome \in {"alerted", "alert_failed"}}

\* The delete_queue entries of a state that carry a source_url.
EntriesFor(state, key) ==
    {i \in DOMAIN Get(state, "delete_queue", <<>>) :
        state["delete_queue"][i].source_url = key}

\* C27: when the send of an alert returns no message id the run does not
\* crash on it, the slot is not added to the slots used today, and no
\* delete_queue entry is created for the candidate: routing goes on to the
\* next result, and at the return of the routing pass the delete_queue holds
\* no entry without a message id, holds for the candidate's dedup_key as many
\* entries more than the store as alerts with a message id were sent for it,
\* and the slot is among the slots used today only if the store had it for
\* that day or an alert of the run returned a message id in it.
C27_FailedSendLeavesNoTrace ==
    \A p \in Procs : \A j \in Attempted(p) :
        LET e == report[p][j]
        IN  e.message_id = None =>
              /\ pc[p] = "raised" => j < Len(report[p])
              /\ Returned(p) =>
                    /\ \A i \in DOMAIN st[p]["delete_queue"] :
                          st[p]["delete_queue"][i].message_id # None
                    /\ Cardinality(EntriesFor(st[p], e.dedup_key))
                          = Cardinality(EntriesFor(blob.doc, e.dedup_key))
                            + Cardinality({i \in Alerted(p) :
                                             report[p][i].dedup_key = e.dedup_key})
                    /\ e.slot \in Range(st[p]["sztos_slots_used_today"]) =>
                          \/ \E i \in Alerted(p) : report[p][i].slot = e.slot
                          \/ /\ Get(blob.doc, "last_sztos_alert_date", None) = Day(e.sent_at)
                             /\ e.slot \in Range(Get(blob.doc, "sztos_slots_used_today", <<>>))

\* The routing pass has returned after a send that gave no message id, with
\* no alert of the run delivered and the slot still free.
C27_FailedSendThenReturn ==
    \E p \in Procs : \E j \in Attempted(p) :
        /\ Returned(p)
        /\ report[p][j].message_id = None
        /\ Alerted(p) = {}
        /\ report[p][j].slot \notin Range(st[p]["sztos_slots_used_today"])

\* C28: for every alerted candidate the channel receives exactly one
\* notification, and at the return of the routing pass the delete_queue holds
\* exactly one entry with the returned message id for it, made for the alert
\* channel, with a delete_at later than the time of the send.
C28_OneNotificationOneEntry ==
    \A p \in Procs : \A j \in Alerted(p) :
        LET e == report[p][j]
            entries == {i \in EntriesFor(st[p], e.dedup_key) :
                          st[p]["delete_queue"][i].message_id = e.message_id}
        IN  /\ Cardinality({i \in AlertsOf(p) :
                              alerts[i].dedup_key = e.dedup_key}) = 1
            /\ Returned(p) =>
                  /\ Cardinality(entries) = 1
                  /\ \A i \in entries :
                        /\ st[p]["delete_queue"][i].chat_id = TELEGRAM_CHANNEL_ID
                        /\ st[p]["delete_queue"][i].delete_at > e.sent_at

\* The same statement without the count of notifications: the delete_queue
\* entry of every alerted candidate.
C28_OneEntryPerAlert ==
    \A p \in Procs : \A j \in Alerted(p) :
        LET e == report[p][j]
            entries == {i \in EntriesFor(st[p], e.dedup_key) :
                          st[p]["delete_queue"][i].message_id = e.message_id}
        IN  Returned(p) =>
                  /\ Cardinality(entries) = 1
                  /\ \A i \in entries :
                        /\ st[p]["delete_queue"][i].chat_id = TELEGRAM_CHANNEL_ID
                        /\ st[p]["delete_queue"][i].delete_at > e.sent_at

\* ------------------------------------------------------------ manual flush
\* C29: an authorized request to the manual digest-flush endpoint flushes a
\* digest queue: the request that was let in is never answered with the
\* publisher's error text for a missing queue name.
C29_ManualFlushFlushes ==
    \A p \in Procs : result[p] # "no_queue_name"

\* ------------------------------------------------------------ the atomic save
\* C30: save_state_atomic terminates after at most SAVE_ATTEMPTS uploads.
\* While it runs, fewer than SAVE_ATTEMPTS uploads have failed; each of its
\* iterations either stores the payload and returns, or meets a conflict,
\* reloads the generation and goes on with one attempt more, or raises: at
\* once on a store error that is no conflict, and on the conflict of the
\* last attempt.  It returns normally only with the payload stored.
C30_SaveTerminates ==
    /\ [](\A p \in Procs : pc[p] = "saving" => sv[p].attempts < SAVE_ATTEMPTS)
    /\ [][\A p \in Procs :
            (pc[p] = "saving" /\ (pc'[p] # "saving" \/ sv'[p] # sv[p])) =>
                \/ /\ UploadAccepted(blob, sv[p].gen)
                   /\ blob'.doc = sv[p].payload
                   /\ blob'.generation = blob.generation + 1
                   /\ Len(uploads') = Len(uploads) + 1
                   /\ pc'[p] = "repair_reload"
                \/ /\ ~UploadAccepted(blob, sv[p].gen)
                   /\ blob' = blob /\ uploads' = uploads
                   /\ pc'[p] = "saving"
                   /\ sv'[p].attempts = sv[p].attempts + 1
                   /\ sv'[p].gen \in {blob.generation, None}
                   /\ sv'[p].payload = sv[p].payload
                \/ /\ blob' = blob /\ uploads' = uploads
                   /\ pc'[p] = "done" /\ result'[p] = "critical"
                   /\ \/ faults' = faults + 1
                      \/ /\ ~UploadAccepted(blob, sv[p].gen)
                         /\ sv[p].attempts = SAVE_ATTEMPTS - 1]_vars

\* A writer has lost the version race SAVE_ATTEMPTS times, with no store
\* error, and its save has raised with nothing stored.
C30_RaceLostEveryTime ==
    \E p \in Procs :
        /\ result[p] = "critical"
        /\ faults = 0
        /\ uploads = <<>>
        /\ blob.generation >= SAVE_ATTEMPTS + 1

\* ------------------------------------------------------------ ingestion
\* C31: a candidate whose dedup_key is a key of the persisted sent_links is
\* not in the candidate list of a run: no classifier result of the run, and
\* so no audit, alert or digest action, is for such a key.
C31_SeenKeysExcluded ==
    \A p \in Procs : \A i \in DOMAIN report[p] :
        report[p][i].dedup_key \notin DOMAIN Get(blob.doc, "sent_links", EmptyDict)

\* The same statement for the runs whose ingestion read the store.
C31_SeenKeysExcludedWhenRead ==
    faults = 0 => C31_SeenKeysExcluded

\* ------------------------------------------------------------ pure functions
\* The calls that have returned.
Called(p) == IF pc[p] = "returned" THEN DOMAIN report[p] ELSE {}

\* C32: with a time to live above 0 prune_sent_links removes exactly the
\* entries of sent_links whose timestamp is older than now - TTL or cannot be
\* read, keeps every other entry as it was, leaves the rest of the state as
\* it was and returns the number of entries removed; with a time to live of
\* 0 or less it changes nothing and returns 0.
C32_PruneExact ==
    \A p \in Procs : \A i \in Called(p) :
        LET call == report[p][i]
            links == call.before["sent_links"]
            stale == {k \in DOMAIN links :
                        links[k] = None \/ links[k] < call.now - call.ttl}
        IN  IF call.ttl > 0
            THEN /\ DOMAIN st[p]["sent_links"] = DOMAIN links \ stale
                 /\ \A k \in DOMAIN links \ stale : st[p]["sent_links"][k] = links[k]
                 /\ DOMAIN st[p] = DOMAIN call.before
                 /\ \A key \in DOMAIN st[p] \ {"sent_links"} :
                       st[p][key] = call.before[key]
                 /\ call.returned = Cardinality(stale)
            ELSE st[p] = call.before /\ call.returned = 0

\* A call has removed one entry and kept the entry made exactly TTL hours
\* before, over a delete_queue that is not empty.
C32_PrunedSomeKeptBoundary ==
    \E p \in Procs : \E i \in Called(p) :
        LET call == report[p][i]
        IN  /\ call.ttl = DEDUP_TTL_HOURS
            /\ call.returned = 1
            /\ \E k \in DOMAIN st[p]["sent_links"] :
                  st[p]["sent_links"][k] = call.now - call.ttl
            /\ st[p]["delete_queue"] # <<>>

\* ------------------------------------------------------------ no results
\* C33: when the classifier gives no result for any batch the run does not
\* crash: process_and_publish_offers returns to the scheduler, which goes on
\* to the sweep, with no alert sent, nothing queued and the delete_queue as it
\* was; the ledger holds exactly its entries that are within the time to
\* live, and the returned flag says whether an entry was removed.
C33_NoResultsPruneOnly ==
    [][\A p \in Procs :
         (pc[p] = "process" /\ pc'[p] # "process" /\ report'[p] = <<>>) =>
             LET links == st[p]["sent_links"]
                 fresh == {k \in DOMAIN links :
                             links[k] # None /\ links[k] >= clock - DEDUP_TTL_HOURS}
             IN  /\ pc'[p] = "sweep"
                 /\ alerts' = alerts
                 /\ crashed' = crashed
                 /\ QueuedKeys(st'[p]) = {}
                 /\ st'[p]["delete_queue"] = st[p]["delete_queue"]
                 /\ st'[p]["sent_links"] = [k \in fresh |-> links[k]]
                 /\ modified'[p] = (fresh # DOMAIN links)]_vars

\* The routing pass has returned with no classifier result for a feed that
\* held a new post, and an old entry of the ledger was pruned.
C33_NoResultsAndPruned ==
    \E p \in Procs :
        /\ Returned(p)
        /\ report[p] = <<>>
        /\ new_posts(feed, blob.doc) # <<>>
        /\ modified[p]
        /\ DOMAIN st[p]["sent_links"] # DOMAIN blob.doc["sent_links"]

\* ------------------------------------------------------------ classifier calls
\* C34: gemini_api_call_with_retry ends after at most MAX_RETRIES calls of
\* the model and never raises.  Every call before the last one met a
\* rate-limit or service-unavailable error and was followed by a sleep of
\* 2^(attempt+1) seconds; the response of the last call is returned when it
\* gave one, and None when it failed, which is either the first error of
\* another kind or the failure of call number MAX_RETRIES.
C34_BoundedRetries ==
    \A p \in Procs : \A i \in Called(p) :
        LET call == report[p][i]
            outcomes == st[p]
            last == outcomes[call.calls]
        IN  /\ call.calls \in 1..MAX_RETRIES
            /\ ~call.raised
            /\ \A k \in 1..call.calls - 1 :
                  outcomes[k] \in {"rate_limited", "unavailable"}
            /\ call.waits = [k \in 1..call.calls - 1 |-> Power2(k)]
            /\ last = "response" => call.returned = call.calls
            /\ last # "response" =>
                  /\ call.returned = None
                  /\ last = "error" \/ call.calls = MAX_RETRIES

\* The wrapper has given up after MAX_RETRIES rate-limited calls, having slept
\* 2, 4 and 8 seconds.
C34_GaveUpAfterLastRetry ==
    \E p \in Procs : \E i \in Called(p) :
        /\ report[p][i].calls = MAX_RETRIES
        /\ report[p][i].returned = None
        /\ report[p][i].waits = <<2, 4, 8>>

\* ------------------------------------------------------------ host limits
\* The requests in flight to a host.
InFlight(host) ==
    {t \in DOMAIN ingest.tasks :
        ingest.tasks[t].host = host /\ ingest.tasks[t].at = "in_flight"}

\* C35: at every moment of the ingestion stage the number of feed and
\* description requests in flight to one host is at most PER_HOST_CONCURRENCY.
C35_PerHostLimit ==
    \A host \in Hosts : Cardinality(InFlight(host)) <= PER_HOST_CONCURRENCY

\* More feeds of one host than permits: PER_HOST_CONCURRENCY requests are in
\* flight to the host and a further fetch of it waits.
C35_LimitReachedOneWaiting ==
    \E host \in Hosts :
        /\ Cardinality(InFlight(host)) = PER_HOST_CONCURRENCY
        /\ \E t \in DOMAIN ingest.tasks :
              ingest.tasks[t].host = host /\ ingest.tasks[t].at = "waiting"

\* ------------------------------------------------------------ sanitation
\* The queue q without the entries at the positions drop, the others repaired.
RepairedWithout(q, drop) ==
    LET left == SelectSeq([i \in DOMAIN q |-> i], LAMBDA i : i \notin drop)
    IN  [k \in DOMAIN left |-> [q[left[k]] EXCEPT !.chat_id.form = "clean"]]

\* C36: after sanitizing_startup_check no delete_queue entry has a chat_id
\* with stray characters: the queue is the one the check was called with,
\* with every corrupt entry repaired to its numeric id or dropped and every
\* well-formed entry as it was.
C36_NoStrayChatIdLeft ==
    \A p \in Procs : \A i \in Called(p) :
        LET before == report[p][i].before["delete_queue"]
            after == st[p]["delete_queue"]
            corrupt == {k \in DOMAIN before : before[k].chat_id.form # "clean"}
        IN  /\ \A k \in DOMAIN after : after[k].chat_id.form = "clean"
            /\ \E drop \in SUBSET corrupt : after = RepairedWithout(before, drop)

\* The same statement for the queues whose corrupt entries are all a numeric
\* id followed by a space and more text.
C36_SpacedIdsRepaired ==
    \A p \in Procs : \A i \in Called(p) :
        LET before == report[p][i].before["delete_queue"]
        IN  (\A k \in DOMAIN before : before[k].chat_id.form \in {"clean", "stray"})
                => /\ st[p]["delete_queue"] = RepairedWithout(before, {})
                   /\ report[p][i].fixed =
                         Cardinality({k \in DOMAIN before :
                                        before[k].chat_id.form = "stray"})

\* ------------------------------------------------------------ digest order
\* C37: the entries of a digest page appear in non-increasing order of
\* ai_score; entries of equal score are in the order of their lowered titles,
\* and entries of equal score and title in the order of the queue; the
\* top-tier section holds exactly the entries of score 10 and the standard
\* section exactly those of score 9, each entry of the queue once.
C37_DigestOrder ==
    \A p \in Procs : \A c \in Called(p) :
        LET page == report[p][c]
            queue == st[p]["morning_digest_queue"]
            rendered == page.diamond_deals \o page.good_deals
        IN  /\ \A i, j \in DOMAIN rendered :
                  i < j =>
                    /\ rendered[i].ai_score >= rendered[j].ai_score
                    /\ rendered[i].ai_score = rendered[j].ai_score =>
                          /\ rendered[i].original_title.place
                                <= rendered[j].original_title.place
                          /\ rendered[i].original_title.place
                                = rendered[j].original_title.place
                                => rendered[i].dedup_key < rendered[j].dedup_key
            /\ \A i \in DOMAIN page.diamond_deals : page.diamond_deals[i].ai_score = 10
            /\ \A i \in DOMAIN page.good_deals : page.good_deals[i].ai_score = 9
            /\ Len(rendered) = Len(queue)
            /\ Range(rendered) = Range(queue)

\* A page with both sections, on which an entry queued later stands before an
\* entry of the same score queued earlier because of its title.
C37_TitleBeforeQueueOrder ==
    \E p \in Procs : \E c \in Called(p) :
        LET page == report[p][c]
        IN  /\ page.diamond_deals # <<>>
            /\ Len(page.good_deals) >= 2
            /\ page.good_deals[1].dedup_key > page.good_deals[2].dedup_key

\* ----------------------------------------------------- removal by a sweep
\* C38: every item that a sweep removes from delete_queue had a delete call
\* issued in that sweep which ended in success or in a terminal failure; no
\* item, in particular none with a malformed delete_at, leaves the queue
\* without such an outcome.
C38_RemovedOnlyAfterOutcome ==
    \A p \in Procs :
        Swept(p) =>
            LET t == report[p][1]
            IN  \A i \in DOMAIN t.before :
                    ~StillQueued(p, t.before[i]) =>
                        \E j \in DOMAIN t.called :
                            /\ t.called[j] = t.before[i]
                            /\ t.outcome[j] \in {"ok", "gone"}

\* The part of C38 about entries with a malformed delete_at alone: such an
\* entry is still queued after the sweep.
C38_MalformedKept ==
    \A p \in Procs :
        Swept(p) =>
            \A i \in DOMAIN report[p][1].before :
                report[p][1].before[i].delete_at = None
                    => StillQueued(p, report[p][1].before[i])

\* The part of C38 about called items when every entry is well-formed: an
\* item removed had a call that ended in success or a terminal failure.
C38_WellFormedRemovedAfterOutcome ==
    \A p \in Procs :
        Swept(p) /\ (\A i \in DOMAIN report[p][1].before :
                        report[p][1].before[i].delete_at # None) =>
            LET t == report[p][1]
            IN  \A i \in DOMAIN t.before :
                    ~StillQueued(p, t.before[i]) =>
                        \E j \in DOMAIN t.called :
                            /\ t.called[j] = t.before[i]
                            /\ t.outcome[j] \in {"ok", "gone"}

\* ------------------------------------------------- save after a failed load
\* A run of worker p that holds the default state with no generation although
\* a stored document exists: its load_state failed to read the document.
LoadFailed(p) ==
    pc[p] \notin {"idle", "done", "raised"} /\ generation[p] = None /\ blob.exists

\* C39: when load_state fell back to the default state with generation None
\* because reading the existing document failed, no later step of that run
\* replaces the stored document.
C39_FailedLoadNeverOverwrites ==
    [][(\E p \in Procs : LoadFailed(p)) => blob' = blob]_vars

\* ------------------------------------------------- what a finished run stored
\* C40: with no other writer and no store error, when master_scheduler has
\* finished a run in which the state was modified, the stored document is the
\* final in-memory state of the run, and the run has stored it itself.
C40_StoredEqualsFinalState ==
    \A p \in Procs :
        (pc[p] = "done" /\ result[p] = "complete" /\ modified[p]) =>
            /\ blob.exists
            /\ blob.doc = st[p]
            /\ UploadsOf(p) # {}
            /\ ~save_failed[p]

\* A run has finished after changing the state it read: it has marked a post
\* as seen or has swept a message from the delete_queue.
C40_FinishedModifiedRun ==
    \E p \in Procs :
        /\ pc[p] = "done" /\ result[p] = "complete" /\ modified[p]
        /\ st[p]["sent_links"] # EmptyDict
        /\ Len(uploads) = 1

\* A run has finished whose digest step stored the state before the final
\* save, so that the final save met a conflict on its first attempt.
C40_FinishedAfterFlushSave ==
    \E p \in Procs :
        /\ pc[p] = "done" /\ result[p] = "complete"
        /\ Len(uploads) = 2
        /\ uploads[1].ret \in {"digest", "digest_clear"}
        /\ uploads[2].ret = "final"
        /\ blob.generation # generation[p] + 1

====
